---- MODULE Spec2Model ----
(***************************************************************************)
(* The LLM tool-calling loop of the accessibility fixer, in its two        *)
(* variants:                                                               *)
(*   "fixer"    - analyzeAndFixWithDirectCalls of                          *)
(*                .github/scripts/llm-accessibility-fixer.js               *)
(*   "workflow" - analyzeWithDirectCalls of the script embedded in the     *)
(*                llm-direct-mcp-accessibility.yml workflow                *)
(* One action per suspension point (await) of the loop: a completion       *)
(* request to the LLM, and the processing of one tool call of a reply.     *)
(* Everything the code does between two awaits, including the loop exit    *)
(* and the construction of the return value, belongs to the action that    *)
(* precedes it.                                                            *)
(*                                                                         *)
(* Three further specifications follow the loop, each with its own         *)
(* initial predicate and next-state relation over the same variables:      *)
(* MainSpec, main() of the four scripts from start-up to disconnect,       *)
(* FixSpec, the application of a plan of fixes to a document, and          *)
(* ContrastSpec, calculateContrastRatio applied to a pair of colors.       *)
(* While one of the four runs, the variables of the others keep their      *)
(* idle values.                                                            *)
(***************************************************************************)
EXTENDS Integers, Sequences, FiniteSets, TLC

VARIABLES
    variant,        \* which script runs: "fixer" or "workflow"
    messages,       \* the transcript (let messages = [...])
    iteration,      \* iteration (fixer) / iterations (workflow)
    finalResponse,  \* finalResponse of the fixer (unused by the workflow)
    pc,             \* "request", "tools", "returned", "thrown"
    pending,        \* message.tool_calls of the reply being processed
    callIdx,        \* position of the for..of loop in pending
    result,         \* what the loop function handed to its caller
    nextId,         \* ids the LLM API has handed out so far
    requests,       \* history: completion requests issued
    invoked,        \* history: calls of executeFunction
    invocations,    \* history: ids of the tool calls handed to executeFunction
    serverCalls,    \* history: callTool requests sent to the tool server
    llmFailedAt,    \* history: transcript when a completion request failed
    lastEvent,      \* history: what the last step did
    faults,         \* history: non-nominal tool calls and server replies
    extra,          \* history: tool calls beyond the first of their reply
    \* main() of the four scripts
    script,         \* which script's main runs
    apiKey,         \* process.env.OPENAI_API_KEY: "set", "empty" or "unset"
    mainPc,         \* the await main is suspended at, or "ended"
    clientCreated,  \* the MCP Client object exists (a11yClient / this.client)
    connectionOpen, \* client.connect(transport) has succeeded
    closeCalled,    \* history: client.close() has been called
    llmRequested,   \* history: a completion request has been sent
    docRead,        \* history: an HTML document has been read
    writes,         \* history: the files written, in order
    mainOutcome,    \* how main went: "running", "completed", "error logged", ...
    filesLeft,      \* HTML files found and not processed yet
    processed,      \* processedFiles.length
    rewrite,        \* the condition under which main writes the document back
    originalContent,\* history: per file, what readFile returned for it
    results,        \* per file, what its analysis returned (results)
    \* the fix applier
    htmlContent,    \* the document handed to applyFixes
    fixes,          \* fixPlan.fixes / results.fixes
    fixIdx,         \* position of the for..of loop in fixes
    fixedContent,   \* fixedContent (agent scripts) / modifiedHtml (fixer)
    appliedFixes,   \* the counter appliedFixes
    fixLog,         \* history: what was logged about each fix, in order
    prevContent,    \* history: the document before the last fix processed
    prevApplied,    \* history: appliedFixes before the last fix processed
    lastValidity,   \* history: how the validation of the last fix went
    replacedFixes,  \* history: fixes for which text was actually substituted
    applyThrew,     \* the loop was left by an exception nothing in it caught
    lastCheck,      \* history: the checkColorContrast calls of the last validation
    \* the contrast calculation
    color1,         \* first argument of calculateContrastRatio
    color2,         \* second argument of calculateContrastRatio
    contrast        \* what calculateContrastRatio returned, once it has

loopVars == <<variant, messages, iteration, finalResponse, pc, pending, callIdx,
              result, nextId, requests, invoked, invocations, serverCalls,
              llmFailedAt, lastEvent, faults, extra>>

mainVars == <<script, apiKey, mainPc, clientCreated, connectionOpen, closeCalled,
              llmRequested, docRead, writes, mainOutcome, filesLeft, processed,
              rewrite, originalContent, results>>

fixVars == <<htmlContent, fixes, fixIdx, fixedContent, appliedFixes, fixLog,
             prevContent, prevApplied, lastValidity, replacedFixes, applyThrew,
             lastCheck>>

contrastVars == <<color1, color2, contrast>>

vars == <<loopVars, mainVars, fixVars, contrastVars>>

\* main is not running
MainIdle ==
    /\ script = "none"
    /\ apiKey = "set"
    /\ mainPc = "idle"
    /\ clientCreated = FALSE
    /\ connectionOpen = FALSE
    /\ closeCalled = FALSE
    /\ llmRequested = FALSE
    /\ docRead = FALSE
    /\ writes = <<>>
    /\ mainOutcome = "idle"
    /\ filesLeft = 0
    /\ processed = 0
    /\ rewrite = FALSE
    /\ originalContent = <<>>
    /\ results = <<>>

\* no fix is being applied
FixIdle ==
    /\ htmlContent = <<>>
    /\ fixes = <<>>
    /\ fixIdx = 0
    /\ fixedContent = <<>>
    /\ appliedFixes = 0
    /\ fixLog = <<>>
    /\ prevContent = <<>>
    /\ prevApplied = 0
    /\ lastValidity = "none"
    /\ replacedFixes = 0
    /\ applyThrew = FALSE
    /\ lastCheck = <<>>

\* no contrast is being calculated
ContrastIdle ==
    /\ color1 = <<>>
    /\ color2 = <<>>
    /\ contrast = "none"

----------------------------------------------------------------------------
(* Bounds of the model *)

\* the requests of one run, counted from the first, that may be answered by
\* a reply with an empty tool_calls array; such a reply ends the loop
MaxEmptyArrayRequests == 1

\* most tool calls of one run beyond the first call of each reply: with 1,
\* one reply of the run carries two calls; with 2, one carries three or two
\* carry two
MaxExtraCalls == 1
\* most non-nominal tool calls and failing tool-server replies in one run
MaxFaults == 1

----------------------------------------------------------------------------
(* Program constants *)

maxIterationsFixer == 10
maxIterationsWorkflow == 5

maxIterations(v) == IF v = "fixer" THEN maxIterationsFixer ELSE maxIterationsWorkflow

Variants == {"fixer", "workflow"}

\* the names the LLM may put in a tool call: the three of the tool schema
\* and one that no script knows
FunctionNames == {"test_html_accessibility", "check_color_contrast",
                  "get_accessibility_rules", "bogus_function"}

\* toolCall.function.arguments, a string: the JSON text of an object, the
\* JSON text "null", or text that is not JSON
ArgStrings == {"object", "null", "unparsable"}

\* what the tool server does with one callTool request
ServerOutcomes == {"ok", "rejects", "badjson", "nocontent"}

----------------------------------------------------------------------------
(* Values.  Every JS value that reaches a message or the result is a       *)
(* record of one shape, so that values compare.                            *)

Val(k, m, n) == [kind |-> k, msg |-> m, name |-> n]

Null == Val("null", "", "")
Text(t) == Val("text", t, "")
\* { error: <message> }
ErrorValue(m, n) == Val("error", m, n)
\* the object parsed from the tool server's reply text
Parsed(n) == Val("value", "parsed", n)

\* the texts a reply without tool calls may carry (the empty string is one)
FinalTexts == {"final analysis", ""}

\* message.tool_calls of a reply without tool calls: the field is missing
\* (or null), or it is an empty array
NoToolCallsFields == {"missing", "empty array"}

\* the replies without tool calls the API can give to the request made
\* after iter iterations: a text and how the reply says that it has no tool
\* calls; the empty array among the first MaxEmptyArrayRequests requests only
FinalReplies(iter) ==
    {r \in [text : FinalTexts, calls : NoToolCallsFields] :
        r.calls = "empty array" => iter < MaxEmptyArrayRequests}

SentinelFixer == Text("Maximum iterations reached. Analysis may be incomplete.")
SentinelWorkflow == Text("Max iterations reached")
Sentinel(v) == IF v = "fixer" THEN SentinelFixer ELSE SentinelWorkflow

\* JS truthiness of a value: null and "" are falsy
Truthy(v) == ~(v.kind = "null" \/ (v.kind = "text" /\ v.msg = ""))

\* JSON.stringify(functionResult, null, 2): the JSON text of the value
\* (null gives the text "null", { error } gives an object text)
JSONStringify(v) == [v EXCEPT !.kind = IF v.kind = "null" THEN "json null"
                                       ELSE IF v.kind = "error" THEN "json error"
                                       ELSE "json value"]

NoId == 0

\* a message; calls_truthy says whether its tool_calls field is truthy: an
\* array is, even an empty one, a missing field is not
Msg(role, content, calls, id) ==
    [role |-> role, content |-> content, tool_calls |-> calls, tool_call_id |-> id,
     calls_truthy |-> calls # <<>>]

SystemMessage == Msg("system", Text("system prompt"), <<>>, NoId)
UserMessage == Msg("user", Text("user prompt"), <<>>, NoId)
AssistantMessage(content, calls) == Msg("assistant", content, calls, NoId)
ToolMessage(id, content) == Msg("tool", content, <<>>, id)

\* the assistant message pushed for a reply without tool calls
FinalMessage(content, field) ==
    [AssistantMessage(content, <<>>) EXCEPT !.calls_truthy = (field = "empty array")]

NoEvent == [type |-> "none", id |-> NoId, name |-> "", args |-> "",
            outcome |-> "", value |-> Null, threw |-> FALSE, called |-> FALSE,
            text |-> Null]

NoResult == [kind |-> "none", analysis |-> Null, conversationHistory |-> <<>>,
             toolCalls |-> 0]

----------------------------------------------------------------------------
(* ToolInvoker.  An invocation yields                                      *)
(*   threw  - the function threw instead of returning                      *)
(*   value  - the value returned (Null when it threw)                      *)
(*   called - a callTool request went to the tool server                   *)

Returned(v, c) == [threw |-> FALSE, value |-> v, called |-> c]
Threw(c) == [threw |-> TRUE, value |-> Null, called |-> c]

\* FixerToolCall without its catch: a rejected callTool and a SyntaxError of
\* JSON.parse leave the function as exceptions.
FixerToolCallNoCatch(name, outcome) ==
    CASE outcome = "rejects"   -> Threw(TRUE)
      [] outcome = "badjson"   -> Threw(TRUE)
      [] outcome = "nocontent" -> Returned(Null, TRUE)
      [] OTHER                 -> Returned(Parsed(name), TRUE)

\* The body shared by testHtmlAccessibility, checkColorContrast and
\* getAccessibilityRules of the fixer: try { callTool; if (content has text)
\* return JSON.parse(text); return null } catch { return { error } }
FixerToolCall(name, outcome) ==
    CASE outcome = "rejects"   -> Returned(ErrorValue("callTool rejected", name), TRUE)
      [] outcome = "badjson"   -> Returned(ErrorValue("JSON.parse SyntaxError", name), TRUE)
      [] outcome = "nocontent" -> Returned(Null, TRUE)
      [] OTHER                 -> Returned(Parsed(name), TRUE)

testHtmlAccessibility(outcome) == FixerToolCall("test_html_accessibility", outcome)
checkColorContrast(outcome) == FixerToolCall("check_color_contrast", outcome)
getAccessibilityRules(outcome) == FixerToolCall("get_accessibility_rules", outcome)

\* executeFunction of the fixer with the default branch of its switch left
\* out: an unknown name falls out of the switch and undefined is returned.
executeFunctionFixerNoDefault(name, args, outcome) ==
    CASE name = "test_html_accessibility" ->
            IF args = "null" THEN Threw(FALSE) ELSE testHtmlAccessibility(outcome)
      [] name = "check_color_contrast" ->
            IF args = "null" THEN Threw(FALSE) ELSE checkColorContrast(outcome)
      [] name = "get_accessibility_rules" ->
            IF args = "null" THEN Threw(FALSE) ELSE getAccessibilityRules(outcome)
      [] OTHER -> Returned(Null, FALSE)

\* executeFunction of the fixer.  args is what JSON.parse gave: "object" or
\* "null".  Reading args.html / args.foreground / args.tags of null throws a
\* TypeError in executeFunction itself, outside every try block.
executeFunctionFixer(name, args, outcome) ==
    CASE name = "test_html_accessibility" ->
            IF args = "null" THEN Threw(FALSE) ELSE testHtmlAccessibility(outcome)
      [] name = "check_color_contrast" ->
            IF args = "null" THEN Threw(FALSE) ELSE checkColorContrast(outcome)
      [] name = "get_accessibility_rules" ->
            IF args = "null" THEN Threw(FALSE) ELSE getAccessibilityRules(outcome)
      [] OTHER -> Returned(ErrorValue("Unknown function", name), FALSE)

\* executeFunction of the workflow script: one try block around everything;
\* it knows two operations only.
executeFunctionWorkflow(name, args, outcome) ==
    IF name \in {"test_html_accessibility", "check_color_contrast"}
    THEN IF args = "null"
         THEN Returned(ErrorValue("TypeError", name), FALSE)
         ELSE CASE outcome = "rejects"   -> Returned(ErrorValue("callTool rejected", name), TRUE)
                [] outcome = "badjson"   -> Returned(ErrorValue("JSON.parse SyntaxError", name), TRUE)
                [] outcome = "nocontent" -> Returned(ErrorValue("No result from MCP server", name), TRUE)
                [] OTHER                 -> Returned(Parsed(name), TRUE)
    ELSE Returned(ErrorValue("Unknown function", name), FALSE)

executeFunction(v, name, args, outcome) ==
    IF v = "fixer" THEN executeFunctionFixer(name, args, outcome)
    ELSE executeFunctionWorkflow(name, args, outcome)

\* the operations executeFunction of a variant dispatches on
KnownFunctions(v) ==
    IF v = "fixer"
    THEN {"test_html_accessibility", "check_color_contrast", "get_accessibility_rules"}
    ELSE {"test_html_accessibility", "check_color_contrast"}

\* JSON.parse(toolCall.function.arguments) throws a SyntaxError
ArgsParseThrows(args) == args = "unparsable"

----------------------------------------------------------------------------
(* ConversationLoop *)

\* messages.filter(msg => msg.tool_calls).length
ToolCallRounds(msgs) ==
    Cardinality({i \in 1..Len(msgs) : msgs[i].calls_truthy})

\* The fixer after its while loop: the sentinel replaces a falsy
\* finalResponse once iteration has reached maxIterations.
FixerReturn(iter, final, msgs) ==
    [kind |-> "returned",
     analysis |-> IF ~Truthy(final) /\ iter >= maxIterationsFixer
                  THEN SentinelFixer ELSE final,
     conversationHistory |-> msgs,
     toolCalls |-> ToolCallRounds(msgs)]

\* return { analysis: message.content, toolCalls: iterations - 1, ... }
WorkflowReturnFinal(iter, content, msgs) ==
    [kind |-> "returned", analysis |-> content,
     conversationHistory |-> msgs, toolCalls |-> iter - 1]

\* return { analysis: "Max iterations reached", toolCalls: iterations, ... }
WorkflowReturnExhausted(iter, msgs) ==
    [kind |-> "returned", analysis |-> SentinelWorkflow,
     conversationHistory |-> msgs, toolCalls |-> iter]

\* an exception leaves analyzeWithDirectCalls: the caller gets the error only
WorkflowThrown ==
    [kind |-> "thrown", analysis |-> Null, conversationHistory |-> <<>>,
     toolCalls |-> 0]

\* the loop test written with <= : one iteration too many
LoopContinuesOffByOne(v, iter) == iter <= maxIterations(v)

\* while (iteration < maxIterations)
LoopContinues(v, iter) == iter < maxIterations(v)

\* the tool message pushed without the id of its call
PushToolMessageNoId(msgs, id, value) == Append(msgs, ToolMessage(NoId, JSONStringify(value)))

\* messages.push({ role: "tool", tool_call_id: toolCall.id,
\*                 content: JSON.stringify(functionResult, null, 2) })
PushToolMessage(msgs, id, value) == Append(msgs, ToolMessage(id, JSONStringify(value)))

\* a tool call the budget of faults does not count
Nominal(call) == call.name = "test_html_accessibility" /\ call.args = "object"

RECURSIVE CountFaulty(_)
CountFaulty(calls) ==
    IF calls = <<>> THEN 0
    ELSE (IF Nominal(Head(calls)) THEN 0 ELSE 1) + CountFaulty(Tail(calls))

\* The (name, arguments) pairs the LLM puts in the tool calls of the loop:
\* every name with well-formed arguments, and the two malformed argument
\* strings.
ToolCallKinds ==
    {[name |-> n, args |-> "object"] : n \in FunctionNames}
    \cup {[name |-> "test_html_accessibility", args |-> a] : a \in {"null", "unparsable"}}

\* the tool_calls arrays of n calls the API can return: ids are fresh
Replies(n, firstId) ==
    {[i \in 1..n |-> [id |-> firstId + i, name |-> f[i].name, args |-> f[i].args]] :
        f \in [1..n -> ToolCallKinds]}

Init ==
    /\ variant \in Variants
    /\ messages = <<SystemMessage, UserMessage>>
    /\ iteration = 0
    /\ finalResponse = Null
    /\ pc = "request"
    /\ pending = <<>>
    /\ callIdx = 0
    /\ result = NoResult
    /\ nextId = 0
    /\ requests = 0
    /\ invoked = 0
    /\ invocations = <<>>
    /\ serverCalls = 0
    /\ llmFailedAt = <<>>
    /\ lastEvent = NoEvent
    /\ faults = 0
    /\ extra = 0
    /\ MainIdle
    /\ FixIdle
    /\ ContrastIdle

\* openai.chat.completions.create rejects.  The fixer's catch logs and
\* breaks, and the function returns; the workflow script lets it propagate.
CompletionFails ==
    /\ pc = "request"
    /\ LoopContinues(variant, iteration)
    /\ iteration' = iteration + 1
    /\ requests' = requests + 1
    /\ llmFailedAt' = messages
    /\ lastEvent' = [NoEvent EXCEPT !.type = "llm failure"]
    /\ IF variant = "fixer"
       THEN /\ pc' = "returned"
            /\ result' = FixerReturn(iteration + 1, finalResponse, messages)
       ELSE /\ pc' = "thrown"
            /\ result' = WorkflowThrown
    /\ UNCHANGED <<variant, messages, finalResponse, pending, callIdx, nextId,
                   invoked, invocations, serverCalls, faults, extra, mainVars, fixVars, contrastVars>>

\* The reply carries tool calls: the assistant message is pushed and the
\* for..of loop over message.tool_calls starts.
CompletionRequestsTools ==
    /\ pc = "request"
    /\ LoopContinues(variant, iteration)
    /\ \E n \in 1..(1 + MaxExtraCalls - extra) : \E calls \in Replies(n, nextId) :
         /\ faults + CountFaulty(calls) <= MaxFaults
         /\ extra' = extra + (n - 1)
         /\ faults' = faults + CountFaulty(calls)
         /\ messages' = Append(messages, AssistantMessage(Null, calls))
         /\ pending' = calls
         /\ nextId' = nextId + n
    /\ iteration' = iteration + 1
    /\ requests' = requests + 1
    /\ callIdx' = 1
    /\ pc' = "tools"
    /\ lastEvent' = [NoEvent EXCEPT !.type = "tool reply"]
    /\ UNCHANGED <<variant, finalResponse, result, invoked, invocations,
                   serverCalls, llmFailedAt, mainVars, fixVars, contrastVars>>

\* The reply carries no tool call: the assistant message is pushed, the
\* fixer sets finalResponse and breaks, the workflow script returns.
CompletionFinal ==
    /\ pc = "request"
    /\ LoopContinues(variant, iteration)
    /\ \E r \in FinalReplies(iteration) :
         /\ messages' = Append(messages, FinalMessage(Text(r.text), r.calls))
         /\ lastEvent' = [NoEvent EXCEPT !.type = "final reply", !.text = Text(r.text)]
         /\ IF variant = "fixer"
            THEN /\ finalResponse' = Text(r.text)
                 /\ result' = FixerReturn(iteration + 1, Text(r.text), messages')
            ELSE /\ finalResponse' = finalResponse
                 /\ result' = WorkflowReturnFinal(iteration + 1, Text(r.text), messages')
    /\ iteration' = iteration + 1
    /\ requests' = requests + 1
    /\ pc' = "returned"
    /\ UNCHANGED <<variant, pending, callIdx, nextId, invoked, invocations, serverCalls,
                   llmFailedAt, faults, extra, mainVars, fixVars, contrastVars>>

\* what follows the last statement of the for..of body
AfterToolCall(msgs) ==
    IF callIdx < Len(pending)
    THEN /\ callIdx' = callIdx + 1
         /\ pc' = "tools"
         /\ result' = result
    ELSE /\ callIdx' = callIdx
         /\ IF LoopContinues(variant, iteration)
            THEN /\ pc' = "request"
                 /\ result' = result
            ELSE /\ pc' = "returned"
                 /\ result' = IF variant = "fixer"
                              THEN FixerReturn(iteration, finalResponse, msgs)
                              ELSE WorkflowReturnExhausted(iteration, msgs)

\* an exception inside the for..of body: caught by the fixer's try around
\* the iteration (break), not caught by the workflow script
ToolCallAborts ==
    IF variant = "fixer"
    THEN /\ pc' = "returned"
         /\ result' = FixerReturn(iteration, finalResponse, messages)
    ELSE /\ pc' = "thrown"
         /\ result' = WorkflowThrown

\* One pass of the for..of body: JSON.parse of the arguments,
\* executeFunction, messages.push of the tool message.
ToolCallStep ==
    /\ pc = "tools"
    /\ LET call == pending[callIdx] IN
       IF ArgsParseThrows(call.args)
       THEN /\ ToolCallAborts
            /\ lastEvent' = [NoEvent EXCEPT !.type = "tool call", !.id = call.id,
                                !.name = call.name, !.args = call.args, !.threw = TRUE]
            /\ UNCHANGED <<messages, callIdx, invoked, invocations, serverCalls, faults>>
       ELSE \E outcome \in ServerOutcomes :
              LET r == executeFunction(variant, call.name, call.args, outcome)
                  bad == IF r.called /\ outcome # "ok" THEN 1 ELSE 0
              IN /\ faults + bad <= MaxFaults
                 /\ faults' = faults + bad
                 /\ invoked' = invoked + 1
                 /\ invocations' = Append(invocations, call.id)
                 /\ serverCalls' = serverCalls + (IF r.called THEN 1 ELSE 0)
                 /\ lastEvent' = [NoEvent EXCEPT !.type = "tool call", !.id = call.id,
                                    !.name = call.name, !.args = call.args,
                                    !.outcome = IF r.called THEN outcome ELSE "",
                                    !.value = r.value, !.threw = r.threw,
                                    !.called = r.called]
                 /\ IF r.threw
                    THEN /\ ToolCallAborts
                         /\ UNCHANGED <<messages, callIdx>>
                    ELSE /\ messages' = PushToolMessage(messages, call.id, r.value)
                         /\ AfterToolCall(messages')
    /\ UNCHANGED <<variant, iteration, finalResponse, pending, nextId, requests,
                   llmFailedAt, extra, mainVars, fixVars, contrastVars>>

Next ==
    \/ CompletionFails
    \/ CompletionRequestsTools
    \/ CompletionFinal
    \/ ToolCallStep

Spec == Init /\ [][Next]_vars

\* the loop is a sequential program: a step that can be taken is taken
FairSpec == Spec /\ WF_vars(Next)

----------------------------------------------------------------------------
(* Vocabulary of the properties *)

Done == pc \in {"returned", "thrown"}

\* a completion request failed in this run
LLMFailed == llmFailedAt # <<>>

IsAssistant(m) == m.role = "assistant"
IsTool(m) == m.role = "tool"

AssistantPositions == {i \in 1..Len(messages) : IsAssistant(messages[i])}

\* the position of the next assistant message after i, or one past the end
NextAssistant(i) ==
    IF \E j \in AssistantPositions : j > i
    THEN CHOOSE j \in AssistantPositions : j > i /\ \A k \in AssistantPositions : k > i => j <= k
    ELSE Len(messages) + 1

\* the tool messages that carry id: anywhere, and in the segment after i
ToolMessagesFor(id) ==
    {j \in 1..Len(messages) : IsTool(messages[j]) /\ messages[j].tool_call_id = id}
ToolMessagesInSegment(i, id) ==
    {j \in (i + 1)..(NextAssistant(i) - 1) :
        IsTool(messages[j]) /\ messages[j].tool_call_id = id}

\* the assistant message at i has its tool calls answered one for one
Paired(i) ==
    \A k \in 1..Len(messages[i].tool_calls) :
        LET id == messages[i].tool_calls[k].id IN
        /\ Cardinality(ToolMessagesFor(id)) = 1
        /\ Cardinality(ToolMessagesInSegment(i, id)) = 1

EveryReplyHadToolCalls == \A i \in AssistantPositions : messages[i].tool_calls # <<>>

Last(seq) == seq[Len(seq)]

\* the last step processed a tool call
ToolCallEvent == lastEvent.type = "tool call"

\* the position in pending of the tool call the last step processed
EventPosition == CHOOSE k \in 1..Len(pending) : pending[k].id = lastEvent.id

\* After the tool call of the last step the loop went on: to the next call
\* of the reply, else to the next completion request, else (the iteration
\* budget being spent) to the exhaustion return.
LoopWentOn ==
    IF EventPosition < Len(pending)
    THEN pc = "tools" /\ callIdx = EventPosition + 1
    ELSE IF iteration < maxIterations(variant)
         THEN pc = "request"
         ELSE /\ pc = "returned"
              /\ result.analysis = Sentinel(variant)
              /\ result.conversationHistory = messages

\* the last message of the transcript is the tool message of the last
\* step's call and carries an error value
ErrorFedBack ==
    /\ IsTool(Last(messages))
    /\ Last(messages).tool_call_id = lastEvent.id
    /\ Last(messages).content.kind = "json error"

----------------------------------------------------------------------------
(* Properties *)

\* C1: whenever a completion request is about to be issued, every tool call
\* id of every earlier assistant message has exactly one tool message, and
\* that message lies after its assistant message and before the next one.
C1_PairingAtRequest ==
    pc = "request" => \A i \in AssistantPositions : Paired(i)

\* C1 witness: a request is due after a reply of two tool calls was answered.
C1_Witness ==
    /\ pc = "request"
    /\ \E i \in AssistantPositions : Len(messages[i].tool_calls) = 2
    /\ requests >= 2

\* C2: whatever the LLM and the tool server do, the loop issues at most
\* maxIterations completion requests and control leaves the loop function.
C2_BoundedAndTerminates ==
    /\ [](requests <= maxIterations(variant))
    /\ <>Done

\* C2 witness: the loop has ended after maxIterations requests, with a tool
\* failure and a two-call reply on the way.
C2_Witness ==
    /\ Done
    /\ requests = maxIterations(variant)
    /\ faults > 0
    /\ extra > 0

\* C3 (as claimed): if every reply carried a tool call, the loop has made
\* exactly maxIterations requests when it ends and returns the sentinel.
C3_AsClaimed ==
    (Done /\ ~LLMFailed /\ EveryReplyHadToolCalls)
        => /\ requests = maxIterations(variant)
           /\ result.kind = "returned"
           /\ result.analysis = Sentinel(variant)

\* C4 (as claimed): the sentinel is returned only after maxIterations
\* requests, none of which failed and all of which asked for a tool call.
C4_AsClaimed ==
    (Done /\ result.kind = "returned" /\ result.analysis = Sentinel(variant))
        => /\ requests = maxIterations(variant)
           /\ ~LLMFailed
           /\ EveryReplyHadToolCalls

\* C5 (as claimed): a reply without tool calls ends the loop at once, and the
\* analysis returned is the text of that reply, the last message of the
\* returned transcript.
C5_AsClaimed ==
    lastEvent.type = "final reply"
        => /\ pc = "returned"
           /\ ~ENABLED Next
           /\ result.analysis = lastEvent.text
           /\ result.conversationHistory = messages
           /\ IsAssistant(Last(messages))
           /\ Last(messages).content = lastEvent.text

\* C6 (as claimed): a failed completion request ends the loop at once, the
\* transcript of before the request is handed back unchanged, and the outcome
\* is not that of a successful analysis.
C6_AsClaimed ==
    lastEvent.type = "llm failure"
        => /\ Done
           /\ ~ENABLED Next
           /\ messages = llmFailedAt
           /\ result.conversationHistory = llmFailedAt
           /\ (result.kind = "thrown" \/ result.analysis \notin {Text(t) : t \in FinalTexts})

\* C7: a tool invocation that fails (the call to the tool server rejected,
\* or its reply text not JSON) puts a tool message with that call's id and an
\* error value in the transcript, and the loop goes on.
C7_ToolFailureFedBack ==
    (ToolCallEvent /\ lastEvent.called /\ lastEvent.outcome \in {"rejects", "badjson"})
        => /\ ~lastEvent.threw
           /\ lastEvent.value.kind = "error"
           /\ ErrorFedBack
           /\ LoopWentOn

\* C7 witness: the first call of a two-call reply failed at the tool server,
\* and the loop is at the second call.
C7_Witness ==
    /\ ToolCallEvent
    /\ lastEvent.called
    /\ lastEvent.outcome \in {"rejects", "badjson"}
    /\ Len(pending) = 2
    /\ callIdx = 2
    /\ pc = "tools"

\* C8 (as claimed): for each of the three operations, a rejected call, a
\* reply that is not JSON and a reply without content each make the invoker
\* return an error value: it neither throws nor returns null.
C8_AsClaimed ==
    (ToolCallEvent /\ lastEvent.called /\ lastEvent.outcome \in {"rejects", "badjson", "nocontent"}
       /\ lastEvent.name \in {"test_html_accessibility", "check_color_contrast",
                              "get_accessibility_rules"})
        => /\ ~lastEvent.threw
           /\ lastEvent.value.kind = "error"
           /\ lastEvent.value.msg # ""

\* C9 (as claimed): a tool call whose arguments string is not the JSON text
\* of an argument object is answered by a tool message carrying an error
\* value, and the loop goes on.
C9_AsClaimed ==
    (ToolCallEvent /\ lastEvent.args \in {"unparsable", "null"})
        => /\ ErrorFedBack
           /\ LoopWentOn

\* C10: for a name executeFunction does not know, it returns an error value
\* naming it without calling the tool server, the tool message for that call
\* id carries it, and the loop goes on.
C10_UnknownFunction ==
    (ToolCallEvent /\ ~ArgsParseThrows(lastEvent.args)
       /\ lastEvent.name \notin KnownFunctions(variant))
        => /\ ~lastEvent.threw
           /\ lastEvent.value = ErrorValue("Unknown function", lastEvent.name)
           /\ ~lastEvent.called
           /\ Last(messages) = ToolMessage(lastEvent.id, JSONStringify(lastEvent.value))
           /\ LoopWentOn

\* C10 witness: the workflow script was asked for get_accessibility_rules,
\* which only the fixer knows, or either script for a name nobody knows.
C10_Witness ==
    /\ ToolCallEvent
    /\ lastEvent.name \notin KnownFunctions(variant)
    /\ lastEvent.value.kind = "error"
    /\ pc = "request"

----------------------------------------------------------------------------
(* Order of the tool calls (C11) *)

RECURSIVE RequestedIds(_)
\* the ids of the tool calls the assistant messages of msgs carry, in
\* transcript order and, within a reply, in the order the reply lists them
RequestedIds(msgs) ==
    IF msgs = <<>> THEN <<>>
    ELSE (IF IsAssistant(Head(msgs))
          THEN [k \in 1..Len(Head(msgs).tool_calls) |-> Head(msgs).tool_calls[k].id]
          ELSE <<>>) \o RequestedIds(Tail(msgs))

RECURSIVE AnsweredIds(_)
\* the ids the tool messages of msgs answer, in transcript order
AnsweredIds(msgs) ==
    IF msgs = <<>> THEN <<>>
    ELSE (IF IsTool(Head(msgs)) THEN <<Head(msgs).tool_call_id>> ELSE <<>>)
         \o AnsweredIds(Tail(msgs))

IsPrefix(s, t) == Len(s) <= Len(t) /\ SubSeq(t, 1, Len(s)) = s

\* the tool calls requested so far that precede the one the for..of loop
\* is at
CallsBeforeCurrent ==
    SubSeq(RequestedIds(messages), 1,
           Len(RequestedIds(messages)) - (Len(pending) - callIdx + 1))

\* C11 (as claimed): the tool calls are handed to executeFunction in the
\* order the replies list them and never twice; while a reply is being
\* processed every call before the current one has been invoked and its
\* tool message appended, so call i+1 starts only after the result of call
\* i is in the transcript; once a reply has been worked off each of its
\* calls has been invoked exactly once, and the tool messages are in the
\* order of the calls.
C11_AsClaimed ==
    /\ IsPrefix(invocations, RequestedIds(messages))
    /\ AnsweredIds(messages) = invocations
    /\ pc = "tools" => invocations = CallsBeforeCurrent
    /\ pc # "tools" => invocations = RequestedIds(messages)

\* what holds of the order in every run: calls are invoked in the order
\* listed, never twice, one at a time, and answered in that order; a call
\* goes uninvoked or unanswered only when the loop was left by an exception
CallsInOrder ==
    /\ IsPrefix(invocations, RequestedIds(messages))
    /\ IsPrefix(AnsweredIds(messages), invocations)
    /\ Len(invocations) - Len(AnsweredIds(messages)) <= 1
    /\ pc = "tools" => invocations = CallsBeforeCurrent
    /\ (pc # "tools" /\ ~lastEvent.threw) => invocations = RequestedIds(messages)

\* the assistant replies of a transcript that contained a tool call
RepliesWithToolCalls(msgs) ==
    {i \in 1..Len(msgs) : msgs[i].role = "assistant" /\ msgs[i].tool_calls # <<>>}

\* the loop has handed a result to its caller
LoopReturned == pc = "returned" /\ result.kind = "returned"

\* C28 (as claimed): the count of tool-call rounds in the result of the
\* loop is the number of assistant replies of the returned transcript that
\* contained at least one tool call, however the loop ended.
C28_AsClaimed ==
    LoopReturned =>
        result.toolCalls
            = Cardinality(RepliesWithToolCalls(result.conversationHistory))

\* What holds instead: the count is right in the workflow script, which
\* counts iterations, and in the fixer when no reply carried an empty
\* array of tool calls.
CountRightWithoutEmptyArray ==
    (LoopReturned
       /\ (variant = "fixer" =>
             \A i \in 1..Len(messages) :
                messages[i].calls_truthy = (messages[i].tool_calls # <<>>)))
        => result.toolCalls
              = Cardinality(RepliesWithToolCalls(result.conversationHistory))

----------------------------------------------------------------------------
(***************************************************************************)
(* main() of the four scripts:                                             *)
(*   "fixer"    - .github/scripts/llm-accessibility-fixer.js               *)
(*   "workflow" - the llm-direct-mcp.js script the workflow creates and    *)
(*                runs (part_001), preceded by the workflow's "Validate    *)
(*                environment" step                                        *)
(*   "agent"    - the first LLMAccessibilityAgent script of part_000       *)
(*   "agent2"   - the second LLMAccessibilityAgent script of part_000      *)
(* One action per await of main.  The analysis itself is one step here;    *)
(* its inside is the loop specification above and the fix applier below.   *)
(***************************************************************************)

\* most HTML files findHtmlFiles returns in one run of the model
MaxFiles == 2

Scripts == {"fixer", "workflow", "agent", "agent2"}
Agents == {"agent", "agent2"}

\* a string environment variable: set to a non-empty value, set to the
\* empty string (a GitHub secret that does not exist), or not set at all
ApiKeys == {"set", "empty", "unset"}

\* the loop is not running
LoopIdle ==
    /\ variant = "none"
    /\ messages = <<>>
    /\ iteration = 0
    /\ finalResponse = Null
    /\ pc = "idle"
    /\ pending = <<>>
    /\ callIdx = 0
    /\ result = NoResult
    /\ nextId = 0
    /\ requests = 0
    /\ invoked = 0
    /\ invocations = <<>>
    /\ serverCalls = 0
    /\ llmFailedAt = <<>>
    /\ lastEvent = NoEvent
    /\ faults = 0
    /\ extra = 0

KeyMissingOnlyUnset(key) == key = "unset"

\* !process.env.OPENAI_API_KEY, and [ -z "${{ secrets.OPENAI_API_KEY }}" ]
\* of the workflow
KeyMissing(key) == key \in {"empty", "unset"}

\* new OpenAI({ apiKey: process.env.OPENAI_API_KEY }): the library is not
\* part of the repository; with a key it constructs, without one it may
\* throw or construct
ConstructorOutcomes(key) == IF key = "set" THEN {"constructed"} ELSE {"constructed", "throws"}

\* the files main looks for: the first of three (fixer, workflow), or all
\* that exist of findHtmlFiles' paths
FilesFound(s) == IF s \in Agents THEN 0..MaxFiles ELSE 0..1

\* what a document file can hold; Unread stands for a file not read so far
FileContents == {"page one", "page two"}
Unread == "unread"

\* the text a fix plan turns a document into, when it changes it
Patched(content) == <<"patched", content>>

\* What the analysis of a document hands back to main, as far as main looks
\* at it: whether a fix was applied (appliedFixes > 0) and whether the text
\* differs from the document.  A text that differs has had a fix applied;
\* a fix whose fixedCode equals its originalCode is applied without
\* changing the text.  The workflow script applies no fixes.
AnalysisResults(s) ==
    IF s = "workflow"
    THEN {[applied |-> FALSE, changed |-> FALSE]}
    ELSE {r \in [applied : BOOLEAN, changed : BOOLEAN] : r.changed => r.applied}
NoResults == [applied |-> FALSE, changed |-> FALSE]

fixedContentOf(original, r) == IF r.changed THEN Patched(original) ELSE original

\* one fs.writeFile that succeeded
Written(kind, file, content) == [kind |-> kind, file |-> file, content |-> content]

WritesBackAlways(s, r) == s # "workflow"

\* the condition under which main writes the backup and the document:
\* appliedFixes > 0 (fixer), results.fixedContent !== originalContent (agent
\* scripts); the workflow script has no such code
WritesBack(s, r) ==
    CASE s = "fixer" -> r.applied
      [] s \in Agents -> r.changed
      [] OTHER -> FALSE

MainInit ==
    /\ LoopIdle
    /\ FixIdle
    /\ ContrastIdle
    /\ script \in Scripts
    /\ apiKey \in ApiKeys
    /\ mainPc = "start"
    /\ clientCreated = FALSE
    /\ connectionOpen = FALSE
    /\ closeCalled = FALSE
    /\ llmRequested = FALSE
    /\ docRead = FALSE
    /\ writes = <<>>
    /\ mainOutcome = "running"
    /\ filesLeft = 0
    /\ processed = 0
    /\ rewrite = FALSE
    /\ originalContent = [f \in 1..MaxFiles |-> Unread]
    /\ results = [f \in 1..MaxFiles |-> NoResults]

Goto(p, o) == mainPc' = p /\ mainOutcome' = o

\* the catch of main's outer try: the fixer logs and falls into finally;
\* the other three log and call process.exit(1), which ends the process
\* there, before the finally block
OuterCatch ==
    IF script = "fixer"
    THEN Goto("disconnect", "error logged")
    ELSE Goto("ended", "exit 1")

\* the end of the for..of body of the two agent scripts, reached normally
\* or through the catch inside the loop; after the last file the summary is
\* written if a file was processed
AfterFile(proc) ==
    IF filesLeft > 1
    THEN /\ filesLeft' = filesLeft - 1
         /\ Goto("read", mainOutcome)
    ELSE /\ filesLeft' = 0
         /\ IF proc > 0 THEN Goto("summary", mainOutcome)
                        ELSE Goto("disconnect", "completed")

\* an await fails while a file is processed: inside the per-file try of the
\* agent scripts, directly inside the outer try of the other two
FileFails ==
    IF script \in Agents
    THEN /\ AfterFile(processed)
         /\ processed' = processed
    ELSE /\ OuterCatch
         /\ UNCHANGED <<filesLeft, processed>>

\* From the start of the program to the first await: the workflow's
\* "Validate environment" step and the constructor (workflow); the
\* constructor, outside the try, then the key check (fixer); the key check
\* (agent scripts).
Startup ==
    /\ mainPc = "start"
    /\ CASE script = "workflow" ->
              IF KeyMissing(apiKey) THEN Goto("ended", "job failed")
                                    ELSE Goto("initialize", "running")
         [] script = "fixer" ->
              \E c \in ConstructorOutcomes(apiKey) :
                 IF c = "throws" THEN Goto("ended", "rejected")
                 ELSE IF KeyMissing(apiKey) THEN OuterCatch
                 ELSE Goto("initialize", "running")
         [] script \in Agents ->
              IF KeyMissing(apiKey) THEN OuterCatch
                                    ELSE Goto("initialize", "running")
    /\ UNCHANGED <<script, apiKey, clientCreated, connectionOpen, closeCalled,
                   llmRequested, docRead, writes, filesLeft, processed, rewrite, originalContent, results>>
    /\ UNCHANGED <<loopVars, fixVars, contrastVars>>

\* initialize(): the Client is created, then await client.connect().  A
\* failure is caught inside main by the first agent script only, which goes
\* on without tool server.
Initialize ==
    /\ mainPc = "initialize"
    /\ clientCreated' = TRUE
    /\ \E ok \in BOOLEAN :
         /\ connectionOpen' = ok
         /\ IF ok \/ script = "agent"
            THEN Goto("find", mainOutcome)
            ELSE OuterCatch
    /\ UNCHANGED <<script, apiKey, closeCalled, llmRequested, docRead, writes,
                   filesLeft, processed, rewrite, originalContent, results>>
    /\ UNCHANGED <<loopVars, fixVars, contrastVars>>

\* the fs.access probes; without a file main returns from inside the try
FindFiles ==
    /\ mainPc = "find"
    /\ \E n \in FilesFound(script) :
         /\ filesLeft' = n
         /\ IF n = 0 THEN Goto("disconnect", "completed")
                     ELSE Goto("read", mainOutcome)
    /\ UNCHANGED <<script, apiKey, clientCreated, connectionOpen, closeCalled,
                   llmRequested, docRead, writes, processed, rewrite, originalContent, results>>
    /\ UNCHANGED <<loopVars, fixVars, contrastVars>>

\* await fs.readFile(path, 'utf-8')
ReadFile ==
    /\ mainPc = "read"
    /\ \E ok \in BOOLEAN :
         IF ok
         THEN /\ docRead' = TRUE
              /\ \E c \in FileContents :
                   originalContent' = [originalContent EXCEPT ![filesLeft] = c]
              /\ Goto("analyze", mainOutcome)
              /\ UNCHANGED <<filesLeft, processed>>
         ELSE /\ docRead' = docRead
              /\ originalContent' = originalContent
              /\ FileFails
    /\ UNCHANGED <<script, apiKey, clientCreated, connectionOpen, closeCalled,
                   llmRequested, writes, rewrite, results>>
    /\ UNCHANGED <<loopVars, fixVars, contrastVars>>

\* await analyzeAndFixWithDirectCalls / analyzeWithDirectCalls /
\* analyzeAndFixAccessibility.  The fixer's never throws.  r is what the
\* fixes of the analysis do to the document: the agent scripts apply them
\* inside the analysis, the fixer in main after the report is written, with
\* no await in between, so the outcome is fixed here for all of them.
Analyze ==
    /\ mainPc = "analyze"
    /\ llmRequested' = TRUE
    /\ \E threw \in (IF script = "fixer" THEN {FALSE} ELSE BOOLEAN) :
         IF threw
         THEN /\ rewrite' = FALSE
              /\ results' = results
              /\ FileFails
         ELSE /\ \E r \in AnalysisResults(script) :
                   /\ results' = [results EXCEPT ![filesLeft] = r]
                   /\ rewrite' = WritesBack(script, r)
                   /\ Goto(IF script \in Agents /\ WritesBack(script, r)
                           THEN "backup" ELSE "report",
                           mainOutcome)
              /\ UNCHANGED <<filesLeft, processed>>
    /\ UNCHANGED <<script, apiKey, clientCreated, connectionOpen, closeCalled,
                   docRead, writes, originalContent>>
    /\ UNCHANGED <<loopVars, fixVars, contrastVars>>

\* await fs.writeFile(`${path}.backup`, original)
WriteBackup ==
    /\ mainPc = "backup"
    /\ \E ok \in BOOLEAN :
         IF ok
         THEN /\ writes' = Append(writes, Written("backup", filesLeft,
                                                   originalContent[filesLeft]))
              /\ Goto("document", mainOutcome)
              /\ UNCHANGED <<filesLeft, processed>>
         ELSE /\ writes' = writes
              /\ FileFails
    /\ UNCHANGED <<script, apiKey, clientCreated, connectionOpen, closeCalled,
                   llmRequested, docRead, rewrite, originalContent, results>>
    /\ UNCHANGED <<loopVars, fixVars, contrastVars>>

\* await fs.writeFile(path, fixed): the last statement of the fixer's try;
\* followed by the report in the agent scripts
WriteDocument ==
    /\ mainPc = "document"
    /\ \E ok \in BOOLEAN :
         IF ok
         THEN /\ writes' = Append(writes, Written("document", filesLeft,
                                   fixedContentOf(originalContent[filesLeft],
                                                  results[filesLeft])))
              /\ IF script = "fixer" THEN Goto("disconnect", "completed")
                                     ELSE Goto("report", mainOutcome)
              /\ UNCHANGED <<filesLeft, processed>>
         ELSE /\ writes' = writes
              /\ FileFails
    /\ UNCHANGED <<script, apiKey, clientCreated, connectionOpen, closeCalled,
                   llmRequested, docRead, rewrite, originalContent, results>>
    /\ UNCHANGED <<loopVars, fixVars, contrastVars>>

\* await fs.writeFile(report path, report): before the fixes are applied in
\* the fixer, the last statement of the workflow script's try, and followed
\* by processedFiles.push in the agent scripts
WriteReport ==
    /\ mainPc = "report"
    /\ \E ok \in BOOLEAN :
         IF ok
         THEN /\ writes' = Append(writes, Written("report", filesLeft, "report"))
              /\ CASE script = "fixer" ->
                        /\ IF rewrite THEN Goto("backup", mainOutcome)
                                      ELSE Goto("disconnect", "completed")
                        /\ UNCHANGED <<filesLeft, processed>>
                   [] script = "workflow" ->
                        /\ Goto("disconnect", "completed")
                        /\ UNCHANGED <<filesLeft, processed>>
                   [] script \in Agents ->
                        /\ processed' = processed + 1
                        /\ AfterFile(processed + 1)
         ELSE /\ writes' = writes
              /\ FileFails
    /\ UNCHANGED <<script, apiKey, clientCreated, connectionOpen, closeCalled,
                   llmRequested, docRead, rewrite, originalContent, results>>
    /\ UNCHANGED <<loopVars, fixVars, contrastVars>>

\* await fs.writeFile('ACCESSIBILITY_SUMMARY.md', summary), outside the
\* per-file try
WriteSummary ==
    /\ mainPc = "summary"
    /\ \E ok \in BOOLEAN :
         IF ok
         THEN /\ writes' = Append(writes, Written("summary", 0, "summary"))
              /\ Goto("disconnect", "completed")
         ELSE /\ writes' = writes
              /\ OuterCatch
    /\ UNCHANGED <<script, apiKey, clientCreated, connectionOpen, closeCalled,
                   llmRequested, docRead, filesLeft, processed, rewrite, originalContent, results>>
    /\ UNCHANGED <<loopVars, fixVars, contrastVars>>

\* whether disconnect() calls client.close(): if (this.a11yClient) in the
\* fixer and the workflow script, if (this.client && this.isConnected) in
\* the first agent script, if (this.client) in the second
DisconnectCloses ==
    IF script = "agent" THEN clientCreated /\ connectionOpen ELSE clientCreated

\* The finally block: await disconnect().  The first agent script catches
\* a failing close(); in the others it rejects main's promise.
Disconnect ==
    /\ mainPc = "disconnect"
    /\ IF DisconnectCloses
       THEN /\ closeCalled' = TRUE
            /\ \E ok \in BOOLEAN :
                 Goto("ended", IF ok \/ script = "agent" THEN mainOutcome ELSE "rejected")
       ELSE /\ closeCalled' = closeCalled
            /\ Goto("ended", mainOutcome)
    /\ UNCHANGED <<script, apiKey, clientCreated, connectionOpen, llmRequested,
                   docRead, writes, filesLeft, processed, rewrite, originalContent, results>>
    /\ UNCHANGED <<loopVars, fixVars, contrastVars>>

MainNext ==
    \/ Startup
    \/ Initialize
    \/ FindFiles
    \/ ReadFile
    \/ Analyze
    \/ WriteBackup
    \/ WriteDocument
    \/ WriteReport
    \/ WriteSummary
    \/ Disconnect

MainSpec == MainInit /\ [][MainNext]_vars

MainEnded == mainPc = "ended"

\* C12 (as claimed): once the tool-server connection has been opened, main
\* does not end, in whatever way, without having closed it.
C12_AsClaimed ==
    (MainEnded /\ connectionOpen) => closeCalled

\* how main can end without having done its work
FailedOutcomes == {"error logged", "exit 1", "rejected", "job failed"}

\* the API credential is absent: the variable is empty or not set
KeyAbsent == apiKey # "set"

\* C13: without the API credential the run fails before the tool-server
\* connection is opened, before any LLM request and before any document is
\* read or written.
C13_NoKeyNoStart ==
    KeyAbsent =>
        /\ ~clientCreated
        /\ ~connectionOpen
        /\ ~llmRequested
        /\ ~docRead
        /\ writes = <<>>
        /\ mainPc \in {"start", "disconnect", "ended"}
        /\ mainPc # "start" => mainOutcome \in FailedOutcomes

\* C13 witness: a run without credential has ended, as a failure.
C13_Witness ==
    /\ KeyAbsent
    /\ MainEnded
    /\ mainOutcome \in FailedOutcomes

\* the positions in writes of the writes of one kind
WritesOf(kind) == {i \in DOMAIN writes : writes[i].kind = kind}

\* C21: every write of a document comes after a successful write of the
\* backup of the same file, holding the content as it was read from that
\* file; and no backup and no document is written for a file whose analysis
\* applied no fix.
C21_BackupBeforeDocument ==
    /\ \A i \in WritesOf("document") :
          \E j \in 1..(i - 1) :
             writes[j] = Written("backup", writes[i].file,
                                 originalContent[writes[i].file])
    /\ \A i \in WritesOf("backup") :
          /\ writes[i].content = originalContent[writes[i].file]
          /\ results[writes[i].file].applied
    /\ \A i \in WritesOf("document") : results[writes[i].file].applied

\* C21 witness: main has ended after it wrote one document back and left
\* alone another whose analysis applied no fix.
C21_Witness ==
    /\ MainEnded
    /\ WritesOf("document") # {}
    /\ \E k \in WritesOf("report") : ~results[writes[k].file].applied

----------------------------------------------------------------------------
(***************************************************************************)
(* Strings.  A text is a sequence of atoms.  An atom stands for one        *)
(* character, except that the property name color: and the prefix          *)
(* background- are one atom each, so that background-color: is the atom    *)
(* "background-" followed by the atom "color:", and a pattern looking for  *)
(* color: finds it inside background-color: as it does in JavaScript.      *)
(***************************************************************************)

Whitespace == {" "}

\* String.prototype.toLowerCase on one character: the i flag of the
\* regular expressions compares characters this way
LowerAtom(a) ==
    CASE a = "COLOR:" -> "color:"
      [] a = "E" -> "e"
      [] OTHER -> a

LowerCase(t) == [i \in 1..Len(t) |-> LowerAtom(t[i])]

\* the value of a property that is not there (fix.originalCode of a fix
\* object without that key): no text is equal to it
Undefined == <<"undefined">>

\* JavaScript truthiness of a string-or-undefined
TruthyCode(c) == c # <<>> /\ c # Undefined

\* t.startsWith(p, i - 1), positions counted from 1
OccursAt(t, p, i) == i + Len(p) - 1 <= Len(t) /\ SubSeq(t, i, i + Len(p) - 1) = p

\* t.indexOf(p) + 1 for a non-empty p: the first position of p in t, 0 if none
IndexOf(t, p) ==
    IF \E i \in 1..Len(t) : OccursAt(t, p, i)
    THEN CHOOSE i \in 1..Len(t) : OccursAt(t, p, i) /\ \A j \in 1..(i - 1) : ~OccursAt(t, p, j)
    ELSE 0

\* t.includes(p)
Includes(t, p) == p = <<>> \/ IndexOf(t, p) > 0

RECURSIVE Expand(_, _)
\* GetSubstitution: what String.prototype.replace makes of its replacement
\* string, for a pattern without capture groups.  $$ is a dollar sign and $&
\* the matched text; the alphabet has no backquote and no quote, so $` and
\* $' do not arise; a dollar sign before anything else stands for itself.
Expand(repl, matched) ==
    IF repl = <<>> THEN <<>>
    ELSE IF Len(repl) >= 2 /\ repl[1] = "$" /\ repl[2] = "$"
         THEN <<"$">> \o Expand(SubSeq(repl, 3, Len(repl)), matched)
    ELSE IF Len(repl) >= 2 /\ repl[1] = "$" /\ repl[2] = "&"
         THEN matched \o Expand(SubSeq(repl, 3, Len(repl)), matched)
    ELSE <<repl[1]>> \o Expand(Tail(repl), matched)

\* t.replace(p, repl) with a string pattern: the first occurrence only
Replace(t, p, repl) ==
    LET i == IndexOf(t, p) IN
    IF i = 0 THEN t
    ELSE SubSeq(t, 1, i - 1) \o Expand(repl, p) \o SubSeq(t, i + Len(p), Len(t))

RECURSIVE Trim(_)
\* String.prototype.trim
Trim(t) ==
    IF t = <<>> THEN <<>>
    ELSE IF Head(t) \in Whitespace THEN Trim(Tail(t))
    ELSE IF t[Len(t)] \in Whitespace THEN Trim(SubSeq(t, 1, Len(t) - 1))
    ELSE t

\* the longest run of characters other than ; that starts at position i
RunToSemicolon(c, i) ==
    LET stops == {k \in i..Len(c) : c[k] = ";"}
        end == IF stops = {} THEN Len(c)
               ELSE (CHOOSE k \in stops : \A l \in stops : k <= l) - 1
    IN SubSeq(c, i, end)

\* the positions where /prop\s*([^;]+)/ matches in c: prop is there and at
\* least one character other than ; follows it
DeclarationStarts(c, prop) ==
    {i \in 1..Len(c) : OccursAt(c, prop, i) /\ RunToSemicolon(c, i + Len(prop)) # <<>>}

\* c.match(/prop\s*([^;]+)/) is not null
HasDeclaration(c, prop) == DeclarationStarts(c, prop) # {}

\* c.match(/prop\s*([^;]+)/)[1].trim(): the first match; \s* and [^;]+
\* together take everything up to the next ; and trim() removes the
\* white space at both ends
DeclaredValue(c, prop) ==
    LET i == CHOOSE k \in DeclarationStarts(c, prop) :
                 \A l \in DeclarationStarts(c, prop) : k <= l
    IN Trim(RunToSemicolon(c, i + Len(prop)))

ColorProperty == <<"color:">>
BackgroundProperty == <<"background-", "color:">>

\* the first position at or after i that holds no white space
SkipWhitespace(t, i) ==
    LET rest == {k \in i..Len(t) : t[k] \notin Whitespace} IN
    IF rest = {} THEN Len(t) + 1 ELSE CHOOSE k \in rest : \A l \in rest : k <= l

\* the length of the match of new RegExp(`prop\\s*${escaped value}`, 'gi')
\* at position i of t, 0 if it does not match there.  The value is escaped,
\* so it matches as literal text; it is trimmed, so the greedy \s* never
\* has to give white space back.
MatchLength(t, i, prop, value) ==
    IF i + Len(prop) - 1 <= Len(t) /\ LowerCase(SubSeq(t, i, i + Len(prop) - 1)) = LowerCase(prop)
    THEN LET j == SkipWhitespace(t, i + Len(prop)) IN
         IF j + Len(value) - 1 <= Len(t)
            /\ LowerCase(SubSeq(t, j, j + Len(value) - 1)) = LowerCase(value)
         THEN j + Len(value) - i
         ELSE 0
    ELSE 0

RECURSIVE ReplaceAll(_, _, _, _)
\* t.replace(new RegExp(`prop\\s*${escaped value}`, 'gi'), repl): every
\* match, left to right, each replaced by the expansion of repl
ReplaceAll(t, prop, value, repl) ==
    IF t = <<>> THEN <<>>
    ELSE LET n == MatchLength(t, 1, prop, value) IN
         IF n > 0
         THEN Expand(repl, SubSeq(t, 1, n))
              \o ReplaceAll(SubSeq(t, n + 1, Len(t)), prop, value, repl)
         ELSE <<Head(t)>> \o ReplaceAll(Tail(t), prop, value, repl)

----------------------------------------------------------------------------
(***************************************************************************)
(* The fix applier, in its three variants:                                 *)
(*   "agent"  - applyFixes of the first LLMAccessibilityAgent script       *)
(*   "agent2" - applyFixes of the second LLMAccessibilityAgent script      *)
(*   "fixer"  - the loop over results.fixes in main of                     *)
(*              llm-accessibility-fixer.js                                 *)
(* One action per pass of the for..of loop over the fixes.                 *)
(***************************************************************************)

\* most fixes in a plan
MaxFixes == 2

Appliers == {"agent", "agent2", "fixer"}

ColorContrast == "color-contrast"
FixTypes == {ColorContrast, "alt-text"}

Fix(type, originalCode, fixedCode) ==
    [type |-> type, originalCode |-> originalCode, fixedCode |-> fixedCode]

\* the documents of the model
Documents ==
    { <<"x", ";", "x">>,
      <<"x", "color:", " ", "7", ";", "background-", "color:", " ", "e", ";">>,
      <<"background-", "color:", " ", "e", ";", "color:", " ", "e", ";">>,
      <<"background-", "COLOR:", "E", ";", "background-", "color:", " ", "e">>,
      <<"x", "background-", "color:", " ", "e">>,
      <<"color:", " ", "7", "7", ";", "x">>,
      <<"color:", " ", "7", ";", "background-", "color:", " ", "7">> }

\* the pairs of originalCode and fixedCode of the model: plain text that
\* is or is not in the documents, replacement text with dollar signs,
\* declarations that occur verbatim and declarations that differ from the
\* documents in white space, empty and missing code
CodePairs ==
    { <<<<"x">>, <<"y">>>>,
      <<<<"x">>, <<"$", "&", "y", "$", "$">>>>,
      <<<<"y">>, <<"x", "x">>>>,
      <<<<"z">>, <<"y">>>>,
      <<<<>>, <<"y">>>>,
      <<<<"x">>, <<>>>>,
      <<Undefined, <<"y">>>>,
      <<<<"x">>, Undefined>>,
      <<<<"color:", " ", "7">>, <<"color:", " ", "1">>>>,
      <<<<"color:", "7">>, <<"color:", "1">>>>,
      <<<<"color:", "7">>, <<"color:", "$", "&">>>>,
      <<<<"background-", "color:", "e">>, <<"background-", "color:", "f">>>>,
      <<<<"color:", "7", ";", "background-", "color:", "e">>,
        <<"color:", "1", ";", "background-", "color:", "f">>>>,
      <<<<"background-", "color:", "e", ";", "color:", "7">>,
        <<"background-", "color:", "f", ";", "color:", "1">>>> }

\* an element of the fixes array that is null instead of an object; every
\* property read on it throws a TypeError
NullFix == Fix("null", Undefined, Undefined)

\* the fixes the LLM may put in a plan
FixKinds == {Fix(t, p[1], p[2]) : t \in FixTypes, p \in CodePairs} \cup {NullFix}

\* the plans of at most MaxFixes fixes
Plans == UNION {[1..n -> FixKinds] : n \in 0..MaxFixes}

\* The plans a script can be given: the agent scripts take the array out of
\* the JSON the LLM wrote; the fixer builds every fix itself, as an object.
PlansOf(s) ==
    IF s = "fixer" THEN {plan \in Plans : \A i \in DOMAIN plan : plan[i] # NullFix}
                   ELSE Plans

\* The calls of a11yClient.checkColorContrast(fg, bg) validateColorFix makes
\* for a fix: one, when both patterns match in fixedCode, with the trimmed
\* first group of each match; none otherwise, and none when fixedCode.match
\* throws.
ContrastChecks(fix) ==
    IF fix.fixedCode # Undefined
       /\ HasDeclaration(fix.fixedCode, ColorProperty)
       /\ HasDeclaration(fix.fixedCode, BackgroundProperty)
    THEN <<[foreground |-> DeclaredValue(fix.fixedCode, ColorProperty),
            background |-> DeclaredValue(fix.fixedCode, BackgroundProperty)]>>
    ELSE <<>>

\* How validateColorFix can go for a fix.  It is awaited for color-contrast
\* fixes by the two agent scripts.  fix.fixedCode.match throws when the
\* fix has no fixedCode: the first script's validateColorFix catches that
\* and answers true, the second's does not.  With a color: and a
\* background-color: value in fixedCode the tool server is asked and
\* decides; without them the fix is taken to be valid.
ValidationOutcomes(s, fix) ==
    IF s = "fixer" \/ fix.type # ColorContrast THEN {"not run"}
    ELSE IF fix.fixedCode = Undefined
         THEN (IF s = "agent" THEN {"valid"} ELSE {"throws"})
    ELSE IF HasDeclaration(fix.fixedCode, ColorProperty)
            /\ HasDeclaration(fix.fixedCode, BackgroundProperty)
         THEN {"valid", "invalid"}
    ELSE {"valid"}

\* applyColorFixFlexible of the first agent script.  It is called with
\* both codes truthy.  The foreground branch returns whatever its replace
\* returns.
applyColorFixFlexible(doc, fix) ==
    IF HasDeclaration(fix.originalCode, ColorProperty)
       /\ HasDeclaration(fix.fixedCode, ColorProperty)
    THEN ReplaceAll(doc, ColorProperty, DeclaredValue(fix.originalCode, ColorProperty),
                    <<"color:", " ">> \o DeclaredValue(fix.fixedCode, ColorProperty))
    ELSE IF HasDeclaration(fix.originalCode, BackgroundProperty)
            /\ HasDeclaration(fix.fixedCode, BackgroundProperty)
    THEN ReplaceAll(doc, BackgroundProperty,
                    DeclaredValue(fix.originalCode, BackgroundProperty),
                    <<"background-", "color:", " ">>
                        \o DeclaredValue(fix.fixedCode, BackgroundProperty))
    ELSE doc

\* applyColorFix of the second agent script, for codes that are strings
applyColorFix(doc, fix) ==
    IF HasDeclaration(fix.originalCode, ColorProperty)
       /\ HasDeclaration(fix.fixedCode, ColorProperty)
    THEN ReplaceAll(doc, ColorProperty, DeclaredValue(fix.originalCode, ColorProperty),
                    <<"color:", " ">> \o DeclaredValue(fix.fixedCode, ColorProperty))
    ELSE doc

\* what one pass of the loop does: the document after it, what it adds to
\* appliedFixes, and what it logs about the fix
Pass(content, counted, log) == [content |-> content, counted |-> counted, log |-> log]

VerbatimAppliesUnguarded(doc, fix) ==
    fix.originalCode # Undefined /\ fix.fixedCode # Undefined /\ Includes(doc, fix.originalCode)

\* fix.originalCode && fix.fixedCode && fixedContent.includes(fix.originalCode)
VerbatimApplies(doc, fix) ==
    TruthyCode(fix.originalCode) /\ TruthyCode(fix.fixedCode) /\ Includes(doc, fix.originalCode)

\* the body of the loop of the first agent script: validation never stops
\* a fix; the fallback counts a fix when it changed the document.  On a
\* null fix, fix.type throws inside the try, and fix.description throws
\* again inside the catch, which nothing in applyFixes catches.
ApplyFixAgent(doc, fix, validity) ==
    IF fix = NullFix THEN Pass(doc, 0, "rethrown")
    ELSE IF TruthyCode(fix.originalCode) /\ TruthyCode(fix.fixedCode)
    THEN IF Includes(doc, fix.originalCode)
         THEN Pass(Replace(doc, fix.originalCode, fix.fixedCode), 1, "applied")
         ELSE IF fix.type = ColorContrast
              THEN LET colorFixed == applyColorFixFlexible(doc, fix) IN
                   IF colorFixed # doc THEN Pass(colorFixed, 1, "applied color")
                                       ELSE Pass(doc, 0, "nothing")
              ELSE Pass(doc, 0, "could not find")
    ELSE Pass(doc, 0, "nothing")

\* the body of the loop of the second agent script: a fix that fails the
\* validation is skipped; the fallback counts every fix it is tried on;
\* what validateColorFix or applyColorFix throw is caught and logged, with
\* fix.description, which throws in its turn when the fix is null
ApplyFixAgent2(doc, fix, validity) ==
    IF fix = NullFix THEN Pass(doc, 0, "rethrown")
    ELSE IF validity = "throws" THEN Pass(doc, 0, "error")
    ELSE IF validity = "invalid" THEN Pass(doc, 0, "skipped")
    ELSE IF VerbatimApplies(doc, fix)
         THEN Pass(Replace(doc, fix.originalCode, fix.fixedCode), 1, "applied")
    ELSE IF fix.type = ColorContrast
         THEN IF fix.originalCode = Undefined \/ fix.fixedCode = Undefined
              THEN Pass(doc, 0, "error")
              ELSE Pass(applyColorFix(doc, fix), 1, "applied color")
    ELSE Pass(doc, 0, "nothing")

\* the body of the loop in the fixer's main
ApplyFixFixer(doc, fix, validity) ==
    IF VerbatimApplies(doc, fix)
    THEN Pass(Replace(doc, fix.originalCode, fix.fixedCode), 1, "applied")
    ELSE Pass(doc, 0, "nothing")

ApplyFix(s, doc, fix, validity) ==
    CASE s = "agent" -> ApplyFixAgent(doc, fix, validity)
      [] s = "agent2" -> ApplyFixAgent2(doc, fix, validity)
      [] s = "fixer" -> ApplyFixFixer(doc, fix, validity)

\* the pass hands the fix to the color fallback
FallbackRuns(s, doc, fix, validity) ==
    /\ fix.type = ColorContrast
    /\ fix.originalCode # Undefined /\ fix.fixedCode # Undefined
    /\ CASE s = "agent" -> /\ TruthyCode(fix.originalCode) /\ TruthyCode(fix.fixedCode)
                           /\ ~Includes(doc, fix.originalCode)
         [] s = "agent2" -> validity \notin {"throws", "invalid"} /\ ~VerbatimApplies(doc, fix)
         [] OTHER -> FALSE

\* the regular expression the fallback builds for the fix matches in doc
FallbackMatches(s, doc, fix) ==
    IF HasDeclaration(fix.originalCode, ColorProperty)
       /\ HasDeclaration(fix.fixedCode, ColorProperty)
    THEN \E i \in 1..Len(doc) :
            MatchLength(doc, i, ColorProperty,
                        DeclaredValue(fix.originalCode, ColorProperty)) > 0
    ELSE IF s = "agent" /\ HasDeclaration(fix.originalCode, BackgroundProperty)
            /\ HasDeclaration(fix.fixedCode, BackgroundProperty)
    THEN \E i \in 1..Len(doc) :
            MatchLength(doc, i, BackgroundProperty,
                        DeclaredValue(fix.originalCode, BackgroundProperty)) > 0
    ELSE FALSE

\* history: text of the document was matched and substituted by this pass
Substituted(s, doc, fix, validity) ==
    \/ ApplyFix(s, doc, fix, validity).log = "applied"
    \/ FallbackRuns(s, doc, fix, validity) /\ FallbackMatches(s, doc, fix)

\* generateReport: const fixesApplied = results.fixPlan?.fixes?.length || 0,
\* also the fixesApplied main records of a processed file, which
\* createSummary adds up
ReportedFixesApplied(plan) == Len(plan)

\* main: what a file adds to totalFixesApplied
TotalFixesAdded(original, fixed, plan) == IF fixed # original THEN Len(plan) ELSE 0

FixInit ==
    /\ LoopIdle
    /\ ContrastIdle
    /\ script \in Appliers
    /\ apiKey = "set"
    /\ mainPc = "idle"
    /\ clientCreated = FALSE
    /\ connectionOpen = FALSE
    /\ closeCalled = FALSE
    /\ llmRequested = FALSE
    /\ docRead = FALSE
    /\ writes = <<>>
    /\ mainOutcome = "idle"
    /\ filesLeft = 0
    /\ processed = 0
    /\ rewrite = FALSE
    /\ originalContent = <<>>
    /\ results = <<>>
    /\ htmlContent \in Documents
    /\ fixes \in PlansOf(script)
    /\ fixIdx = 1
    /\ fixedContent = htmlContent
    /\ appliedFixes = 0
    /\ fixLog = <<>>
    /\ prevContent = htmlContent
    /\ prevApplied = 0
    /\ lastValidity = "none"
    /\ replacedFixes = 0
    /\ applyThrew = FALSE
    /\ lastCheck = <<>>

\* one pass of for (const fix of fixes), validation included
ApplyNextFix ==
    /\ fixIdx <= Len(fixes)
    /\ ~applyThrew
    /\ \E validity \in ValidationOutcomes(script, fixes[fixIdx]) :
         LET pass == ApplyFix(script, fixedContent, fixes[fixIdx], validity) IN
         /\ fixedContent' = pass.content
         /\ appliedFixes' = appliedFixes + pass.counted
         /\ fixLog' = Append(fixLog, pass.log)
         /\ applyThrew' = (pass.log = "rethrown")
         /\ lastCheck' = IF validity = "not run" THEN <<>>
                         ELSE ContrastChecks(fixes[fixIdx])
         /\ lastValidity' = validity
         /\ replacedFixes' = replacedFixes
                + (IF Substituted(script, fixedContent, fixes[fixIdx], validity) THEN 1 ELSE 0)
    /\ prevContent' = fixedContent
    /\ prevApplied' = appliedFixes
    /\ fixIdx' = fixIdx + 1
    /\ UNCHANGED <<htmlContent, fixes>>
    /\ UNCHANGED <<loopVars, mainVars, contrastVars>>

FixNext == ApplyNextFix

FixSpec == FixInit /\ [][FixNext]_vars

----------------------------------------------------------------------------
(* Vocabulary of the properties of the fix applier *)

\* a pass of the loop has been made
FixProcessed == fixIdx > 1
\* the fix the last pass processed
LastFix == fixes[fixIdx - 1]
\* the last pass was not stopped by the validation
NotStopped == lastValidity \notin {"invalid", "throws"}
\* all fixes of the plan have been processed
FixesDone == fixIdx > Len(fixes)

\* t with the first occurrence of p replaced by the text repl, taken as it is
ReplaceFirstLiteral(t, p, repl) ==
    LET i == IndexOf(t, p) IN
    IF i = 0 THEN t
    ELSE SubSeq(t, 1, i - 1) \o repl \o SubSeq(t, i + Len(p), Len(t))

\* the last fix has an originalCode that occurs in the document it was
\* applied to and a fixedCode to put in its place
LastFixOccurs ==
    /\ FixProcessed
    /\ NotStopped
    /\ TruthyCode(LastFix.originalCode)
    /\ TruthyCode(LastFix.fixedCode)
    /\ Includes(prevContent, LastFix.originalCode)

\* C14 (as claimed): a fix whose originalCode occurs in the current
\* document has exactly the first occurrence replaced by the literal text
\* of fixedCode, later occurrences untouched, and raises the applied count
\* by one.
C14_AsClaimed ==
    LastFixOccurs =>
        /\ fixedContent = ReplaceFirstLiteral(prevContent, LastFix.originalCode,
                                              LastFix.fixedCode)
        /\ appliedFixes = prevApplied + 1

\* the text holds a dollar sign
HasDollar(t) == \E i \in 1..Len(t) : t[i] = "$"

\* what holds of the verbatim replacement when fixedCode has no dollar sign
VerbatimWithoutDollar ==
    (LastFixOccurs /\ ~HasDollar(LastFix.fixedCode)) =>
        /\ fixedContent = ReplaceFirstLiteral(prevContent, LastFix.originalCode,
                                              LastFix.fixedCode)
        /\ appliedFixes = prevApplied + 1

RECURSIVE ReplaceAllLiteral(_, _, _, _)
\* t with every occurrence of the declaration of prop with that value, in
\* any letter case, replaced by the text repl, taken as it is
ReplaceAllLiteral(t, prop, value, repl) ==
    IF t = <<>> THEN <<>>
    ELSE LET n == MatchLength(t, 1, prop, value) IN
         IF n > 0
         THEN repl \o ReplaceAllLiteral(SubSeq(t, n + 1, Len(t)), prop, value, repl)
         ELSE <<Head(t)>> \o ReplaceAllLiteral(Tail(t), prop, value, repl)

\* the declaration of prop with that value occurs in t, in any letter case
DeclarationOccurs(t, prop, value) ==
    \E i \in 1..Len(t) : MatchLength(t, i, prop, value) > 0

\* both codes of the fix carry a value for the property
BothDeclare(fix, prop) ==
    HasDeclaration(fix.originalCode, prop) /\ HasDeclaration(fix.fixedCode, prop)

\* the substitution of the color: value of the fix finds a match in doc
ForegroundMatches(doc, fix) ==
    /\ BothDeclare(fix, ColorProperty)
    /\ DeclarationOccurs(doc, ColorProperty, DeclaredValue(fix.originalCode, ColorProperty))

\* doc after the substitution of the background-color: value of the fix
BackgroundSubstitution(doc, fix) ==
    ReplaceAllLiteral(doc, BackgroundProperty,
                      DeclaredValue(fix.originalCode, BackgroundProperty),
                      <<"background-", "color:", " ">>
                          \o DeclaredValue(fix.fixedCode, BackgroundProperty))

\* the last pass handed its fix to applyColorFixFlexible
LastFixFellBack ==
    /\ FixProcessed
    /\ script = "agent"
    /\ FallbackRuns(script, prevContent, LastFix, lastValidity)

\* C15 (as claimed): in the color fallback the foreground substitution
\* comes first and, when it finds no match in the document, the background
\* substitution is made: a fix whose two codes carry a background-color:
\* value leaves the document as the background substitution makes it.
C15_AsClaimed ==
    (LastFixFellBack /\ BothDeclare(LastFix, BackgroundProperty)
       /\ ~ForegroundMatches(prevContent, LastFix))
        => fixedContent = BackgroundSubstitution(prevContent, LastFix)

RECURSIVE CountDeclarations(_, _, _)
\* how often the declaration of prop with that value occurs in t, in any
\* letter case
CountDeclarations(t, prop, value) ==
    IF t = <<>> THEN 0
    ELSE LET n == MatchLength(t, 1, prop, value) IN
         IF n > 0 THEN 1 + CountDeclarations(SubSeq(t, n + 1, Len(t)), prop, value)
                  ELSE CountDeclarations(Tail(t), prop, value)

\* neither text begins with the other, letter case aside
Unrelated(a, b) ==
    /\ ~(Len(a) <= Len(b) /\ LowerCase(SubSeq(b, 1, Len(a))) = LowerCase(a))
    /\ ~(Len(b) <= Len(a) /\ LowerCase(SubSeq(a, 1, Len(b))) = LowerCase(b))

\* the background-color: values of the last fix
OldBackground == DeclaredValue(LastFix.originalCode, BackgroundProperty)
NewBackground == DeclaredValue(LastFix.fixedCode, BackgroundProperty)

\* C16 (as claimed): when a color-contrast fix whose originalCode is not
\* in the document carries a background-color: value in both codes, every
\* occurrence of background-color: <old value> in the document, in any
\* letter case, has the new value afterwards, and the fix is counted as
\* applied.
C16_AsClaimed ==
    (LastFixFellBack /\ BothDeclare(LastFix, BackgroundProperty)
       /\ Unrelated(OldBackground, NewBackground)
       /\ DeclarationOccurs(prevContent, BackgroundProperty, OldBackground))
        => /\ CountDeclarations(fixedContent, BackgroundProperty, OldBackground) = 0
           /\ CountDeclarations(fixedContent, BackgroundProperty, NewBackground)
                = CountDeclarations(prevContent, BackgroundProperty, NewBackground)
                  + CountDeclarations(prevContent, BackgroundProperty, OldBackground)
           /\ appliedFixes = prevApplied + 1

\* what holds of the background when the codes of the fix carry no other
\* color: value before it: all occurrences get the new value
BackgroundOnlyFallback ==
    (LastFixFellBack /\ BothDeclare(LastFix, BackgroundProperty)
       /\ Unrelated(OldBackground, NewBackground)
       /\ DeclarationOccurs(prevContent, BackgroundProperty, OldBackground)
       /\ DeclaredValue(LastFix.originalCode, ColorProperty) = OldBackground
       /\ DeclaredValue(LastFix.fixedCode, ColorProperty) = NewBackground)
        => /\ CountDeclarations(fixedContent, BackgroundProperty, OldBackground) = 0
           /\ CountDeclarations(fixedContent, BackgroundProperty, NewBackground)
                = CountDeclarations(prevContent, BackgroundProperty, NewBackground)
                  + CountDeclarations(prevContent, BackgroundProperty, OldBackground)
           /\ appliedFixes = prevApplied + 1

\* the text a declaration of prop is written with by the fallback
DeclarationText(prop, value) == prop \o <<" ">> \o value

\* the documents a fix can make of doc by swapping whole matched spans for
\* replacement text taken as it is: doc itself, doc with the first
\* occurrence of originalCode swapped for fixedCode, doc with every
\* declaration of the old value of a property swapped for the declaration
\* of the new value
LiteralResults(doc, fix) ==
    {doc}
    \cup (IF TruthyCode(fix.originalCode) /\ TruthyCode(fix.fixedCode)
          THEN {ReplaceFirstLiteral(doc, fix.originalCode, fix.fixedCode)}
          ELSE {})
    \cup (IF fix.originalCode = Undefined \/ fix.fixedCode = Undefined THEN {}
          ELSE {ReplaceAllLiteral(doc, prop, DeclaredValue(fix.originalCode, prop),
                                  DeclarationText(prop, DeclaredValue(fix.fixedCode, prop))) :
                   prop \in {q \in {ColorProperty, BackgroundProperty} : BothDeclare(fix, q)}})

\* C17 (as claimed): a pass either leaves the document unchanged or swaps
\* whole matched spans: the text outside the spans is the same before and
\* after, and each span becomes exactly the replacement text, nothing of
\* it dropped, expanded or read as a replacement pattern.
C17_AsClaimed ==
    FixProcessed => fixedContent \in LiteralResults(prevContent, LastFix)

\* what holds of the frame when fixedCode has no dollar sign
FrameWithoutDollar ==
    (FixProcessed /\ (LastFix.fixedCode = Undefined \/ ~HasDollar(LastFix.fixedCode)))
        => fixedContent \in LiteralResults(prevContent, LastFix)

\* the last fix has an originalCode that the document it was applied to
\* does not contain, a fixedCode, and another type than color-contrast
LastFixNotFound ==
    /\ FixProcessed
    /\ script \in Agents
    /\ LastFix.type # ColorContrast
    /\ TruthyCode(LastFix.originalCode)
    /\ TruthyCode(LastFix.fixedCode)
    /\ ~Includes(prevContent, LastFix.originalCode)

\* C18 (as claimed): a fix whose originalCode is not in the document and
\* whose type is not color-contrast leaves the document and the applied
\* count as they were and is reported as not applied; it raises no error,
\* and the loop goes on to the fixes after it.
C18_AsClaimed ==
    LastFixNotFound =>
        /\ fixedContent = prevContent
        /\ appliedFixes = prevApplied
        /\ Last(fixLog) = "could not find"
        /\ Len(fixLog) = fixIdx - 1

\* what holds of such a fix in both agent scripts: nothing changes, nothing
\* is counted, no error is raised
NotFoundIsSkipped ==
    LastFixNotFound =>
        /\ fixedContent = prevContent
        /\ appliedFixes = prevApplied
        /\ Last(fixLog) \in {"could not find", "nothing"}

\* C19 (as claimed): every number of applied fixes the scripts report, the
\* counter of applyFixes, the number in the file's report and in the
\* summary, and what the file adds to the final total, is the number of
\* fixes that were actually applied to the document.
C19_AsClaimed ==
    FixesDone =>
        /\ appliedFixes = replacedFixes
        /\ script \in Agents =>
             /\ ReportedFixesApplied(fixes) = replacedFixes
             /\ TotalFixesAdded(htmlContent, fixedContent, fixes) = replacedFixes

\* the counter alone is right in the first agent script and in the fixer
CounterIsRight ==
    (FixesDone /\ script \in {"agent", "fixer"}) => appliedFixes = replacedFixes

\* the background-color: value of the fix occurs in doc
BackgroundMatches(doc, fix) ==
    /\ BothDeclare(fix, BackgroundProperty)
    /\ DeclarationOccurs(doc, BackgroundProperty,
                         DeclaredValue(fix.originalCode, BackgroundProperty))

\* the fix matches in doc, verbatim or through the color fallback
MatchesAtTurn(doc, fix) ==
    /\ TruthyCode(fix.originalCode)
    /\ TruthyCode(fix.fixedCode)
    /\ \/ Includes(doc, fix.originalCode)
       \/ /\ fix.type = ColorContrast
          /\ ForegroundMatches(doc, fix) \/ BackgroundMatches(doc, fix)

\* doc with the replacement of a matching fix in it, taken as it is: the
\* first occurrence of originalCode, else every declaration of the old
\* foreground value, else every declaration of the old background value
WithReplacement(doc, fix) ==
    IF Includes(doc, fix.originalCode)
    THEN ReplaceFirstLiteral(doc, fix.originalCode, fix.fixedCode)
    ELSE IF ForegroundMatches(doc, fix)
    THEN ReplaceAllLiteral(doc, ColorProperty, DeclaredValue(fix.originalCode, ColorProperty),
                           DeclarationText(ColorProperty,
                                           DeclaredValue(fix.fixedCode, ColorProperty)))
    ELSE BackgroundSubstitution(doc, fix)

RECURSIVE EveryFixMatches(_, _)
\* every fix of the plan matches at its turn, in the document that the
\* replacements of the fixes before it have made
EveryFixMatches(doc, plan) ==
    \/ plan = <<>>
    \/ /\ MatchesAtTurn(doc, Head(plan))
       /\ EveryFixMatches(WithReplacement(doc, Head(plan)), Tail(plan))

RECURSIVE WithReplacements(_, _)
\* doc with the replacements of the plan made one after the other
WithReplacements(doc, plan) ==
    IF plan = <<>> THEN doc
    ELSE WithReplacements(WithReplacement(doc, Head(plan)), Tail(plan))

\* the fixes processed so far
ProcessedFixes == SubSeq(fixes, 1, fixIdx - 1)

\* C20 (as claimed): the fixes are applied in list order, each to the
\* document the fixes before it have made; as long as every fix matches at
\* its turn, verbatim or through the color fallback, the applied count is
\* the number of fixes processed and the document holds every replacement
\* as the sequence of the fixes makes it, none spoilt.
C20_AsClaimed ==
    (script = "agent" /\ EveryFixMatches(htmlContent, ProcessedFixes))
        => /\ appliedFixes = Len(ProcessedFixes)
           /\ fixedContent = WithReplacements(htmlContent, ProcessedFixes)

\* the fix is one the defects of the replacement do not touch: its
\* fixedCode has no dollar sign, and it is not a color-contrast fix with
\* different foreground and background values in its codes
PlainFix(fix) ==
    /\ TruthyCode(fix.fixedCode) => ~HasDollar(fix.fixedCode)
    /\ (TruthyCode(fix.originalCode) /\ TruthyCode(fix.fixedCode)
        /\ BothDeclare(fix, BackgroundProperty))
         => /\ DeclaredValue(fix.originalCode, ColorProperty)
                 = DeclaredValue(fix.originalCode, BackgroundProperty)
            /\ DeclaredValue(fix.fixedCode, ColorProperty)
                 = DeclaredValue(fix.fixedCode, BackgroundProperty)

\* what holds of a plan of plain fixes that all match at their turn
PlainFixesAccumulate ==
    (script = "agent" /\ EveryFixMatches(htmlContent, ProcessedFixes)
       /\ \A i \in 1..Len(ProcessedFixes) : PlainFix(ProcessedFixes[i]))
        => /\ appliedFixes = Len(ProcessedFixes)
           /\ fixedContent = WithReplacements(htmlContent, ProcessedFixes)

\* applying the last fix raised an error
LastFixRaised ==
    /\ FixProcessed
    /\ fixLog[Len(fixLog)] \in {"error", "rethrown"}

\* C22 (as claimed): when applying a fix raises an error, the document keeps
\* what the earlier fixes made of it and the loop goes on to the later
\* fixes, so that applyFixes returns the partially fixed document to main.
C22_AsClaimed ==
    LastFixRaised =>
        /\ fixedContent = prevContent
        /\ ~applyThrew

\* An error raised by a fix that is an object is caught inside the loop: it
\* changes neither the document nor the counter and does not end the loop.
ObjectErrorsCaught ==
    (LastFixRaised /\ LastFix # NullFix) =>
        /\ fixedContent = prevContent
        /\ appliedFixes = prevApplied
        /\ ~applyThrew

\* The text applyFixes works on differs from the document only after a fix
\* was counted as applied (the results main acts on).
ChangedOnlyIfApplied ==
    fixedContent # htmlContent => appliedFixes > 0

----------------------------------------------------------------------------
(***************************************************************************)
(* calculateContrastRatio of A11yMCPClient (part_000).  A color is a       *)
(* sequence of one-character strings, or NotAString for an argument that   *)
(* is no string.  The characters of the model are the hex digits, "#",     *)
(* "-" and letters that are no hex digits; there is no white space and no  *)
(* "x", which parseInt treats specially.                                   *)
(*                                                                         *)
(* Numbers are fixed-point integers: a channel after linearisation has     *)
(* four decimals (unit 1/10000), a luminance eight (unit 1/100000000).     *)
(***************************************************************************)

\* NaN: an integer no calculation of the model arrives at
NaN == -2000000000

\* an argument on which color.replace is not a function
NotAString == <<"undefined">>

HexDigits == <<"0", "1", "2", "3", "4", "5", "6", "7", "8", "9",
               "a", "b", "c", "d", "e", "f">>

IsHexDigit(ch) == \E i \in DOMAIN HexDigits : HexDigits[i] = ch

DigitValue(ch) == (CHOOSE i \in DOMAIN HexDigits : HexDigits[i] = ch) - 1

\* color.replace('#', ''): the first "#" is removed, wherever it is
RemoveHash(color) ==
    IF \E i \in DOMAIN color : color[i] = "#"
    THEN LET i == CHOOSE k \in DOMAIN color :
                     color[k] = "#" /\ \A j \in 1..(k - 1) : color[j] # "#"
         IN SubSeq(color, 1, i - 1) \o SubSeq(color, i + 1, Len(color))
    ELSE color

\* hex.substr(start, length), start counted from 0
Substr(t, start, length) ==
    SubSeq(t, start + 1, IF start + length < Len(t) THEN start + length ELSE Len(t))

\* the value of the longest run of hex digits at the start of t, 0 for none
RECURSIVE DigitsValue(_, _)
DigitsValue(t, acc) ==
    IF t = <<>> \/ ~IsHexDigit(Head(t)) THEN acc
    ELSE DigitsValue(Tail(t), 16 * acc + DigitValue(Head(t)))

\* parseInt(t, 16): an optional sign, then the hex digits up to the first
\* character that is none; NaN when there is no digit
parseInt16(t) ==
    LET signed == t # <<>> /\ Head(t) \in {"-", "+"}
        digits == IF signed THEN Tail(t) ELSE t
    IN IF digits = <<>> \/ ~IsHexDigit(Head(digits)) THEN NaN
       ELSE IF signed /\ Head(t) = "-" THEN 0 - DigitsValue(digits, 0)
       ELSE DigitsValue(digits, 0)

\* Math.pow((c / 255 + 0.055) / 1.055, 2.4) for c = 0 .. 255, in units of
\* 1/10000, rounded to the nearest
GammaExpanded ==
    << 
           0,     3,     6,     9,    12,    15,    18,    21,    24,    27,    30,    33,    37,    40,    44,    48,
          52,    56,    60,    65,    70,    75,    80,    86,    91,    97,   103,   110,   116,   123,   130,   137,
         144,   152,   160,   168,   176,   185,   194,   203,   212,   222,   232,   242,   252,   262,   273,   284,
         296,   307,   319,   331,   343,   356,   369,   382,   395,   409,   423,   437,   452,   467,   482,   497,
         513,   529,   545,   561,   578,   595,   612,   630,   648,   666,   685,   704,   723,   742,   762,   782,
         802,   823,   844,   865,   887,   908,   931,   953,   976,   999,  1022,  1046,  1070,  1095,  1119,  1144,
        1170,  1195,  1221,  1248,  1274,  1301,  1329,  1356,  1384,  1413,  1441,  1470,  1500,  1529,  1559,  1590,
        1620,  1651,  1683,  1714,  1746,  1779,  1812,  1845,  1878,  1912,  1946,  1981,  2016,  2051,  2086,  2122,
        2159,  2195,  2232,  2270,  2307,  2346,  2384,  2423,  2462,  2502,  2542,  2582,  2623,  2664,  2705,  2747,
        2789,  2831,  2874,  2918,  2961,  3005,  3050,  3095,  3140,  3185,  3231,  3278,  3325,  3372,  3419,  3467,
        3515,  3564,  3613,  3663,  3712,  3763,  3813,  3864,  3916,  3968,  4020,  4072,  4125,  4179,  4233,  4287,
        4342,  4397,  4452,  4508,  4564,  4621,  4678,  4735,  4793,  4851,  4910,  4969,  5029,  5089,  5149,  5210,
        5271,  5333,  5395,  5457,  5520,  5583,  5647,  5711,  5776,  5841,  5906,  5972,  6038,  6105,  6172,  6240,
        6308,  6376,  6445,  6514,  6584,  6654,  6724,  6795,  6867,  6939,  7011,  7084,  7157,  7231,  7305,  7379,
        7454,  7529,  7605,  7682,  7758,  7835,  7913,  7991,  8070,  8148,  8228,  8308,  8388,  8469,  8550,  8632,
        8714,  8796,  8879,  8963,  9047,  9131,  9216,  9301,  9387,  9473,  9560,  9647,  9734,  9823,  9911, 10000 >>

\* c <= 0.03928 ? c / 12.92 : Math.pow((c + 0.055) / 1.055, 2.4), where c
\* is the channel byte divided by 255; in units of 1/10000
Linearised(byte) ==
    IF byte = NaN THEN NaN
    ELSE IF byte * 100000 <= 3928 * 255
         THEN (byte * 1000000) \div (255 * 1292)
         ELSE GammaExpanded[byte + 1]

\* the default luminance 0.5 of getLuminance's catch
DefaultLuminance == 50000000

\* getLuminance: 0.2126 * rs + 0.7152 * gs + 0.0722 * bs, in units of
\* 1/100000000; the catch is entered when color has no replace method
getLuminance(color) ==
    IF color = NotAString THEN DefaultLuminance
    ELSE LET hex == RemoveHash(color)
             rs == Linearised(parseInt16(Substr(hex, 0, 2)))
             gs == Linearised(parseInt16(Substr(hex, 2, 2)))
             bs == Linearised(parseInt16(Substr(hex, 4, 2)))
         IN IF rs = NaN \/ gs = NaN \/ bs = NaN THEN NaN
            ELSE 2126 * rs + 7152 * gs + 722 * bs

MathMaxFirst(a, b) == a

\* Math.max and Math.min: NaN when an argument is NaN
MathMax(a, b) == IF a = NaN \/ b = NaN THEN NaN ELSE IF a >= b THEN a ELSE b
MathMin(a, b) == IF a = NaN \/ b = NaN THEN NaN ELSE IF a <= b THEN a ELSE b

\* 0.05 in units of 1/100000000
Flare == 5000000

\* a ratio is kept as a fraction with a positive denominator; NaN is 0/0
NaNRatio == [num |-> 0, den |-> 0]

RatioInverted(brightest, darkest) ==
    IF brightest = NaN \/ darkest = NaN THEN NaNRatio
    ELSE [num |-> darkest + Flare, den |-> brightest + Flare]

\* (brightest + 0.05) / (darkest + 0.05)
Ratio(brightest, darkest) ==
    IF brightest = NaN \/ darkest = NaN THEN NaNRatio
    ELSE [num |-> brightest + Flare, den |-> darkest + Flare]

\* ratio >= n / d for a positive threshold n / d; a comparison with NaN is
\* false
AtLeast(ratio, n, d) == ratio # NaNRatio /\ d * ratio.num >= n * ratio.den

\* ratio >= 4.5
AtLeastAA(ratio) == AtLeast(ratio, 9, 2)

AtLeastAAALoose(ratio) == AtLeast(ratio, 3, 1)

\* ratio >= 7.0
AtLeastAAA(ratio) == AtLeast(ratio, 7, 1)

\* the result object of calculateContrastRatio; nothing in its try throws,
\* so the catch with the fallback result is never entered
calculateContrastRatio(c1, c2) ==
    LET lum1 == getLuminance(c1)
        lum2 == getLuminance(c2)
        brightest == MathMax(lum1, lum2)
        darkest == MathMin(lum1, lum2)
        ratio == Ratio(brightest, darkest)
    IN [contrastRatio |-> ratio,
        passes |-> AtLeastAA(ratio),
        wcagAA |-> AtLeastAA(ratio),
        wcagAAA |-> AtLeastAAA(ratio)]

\* what the catch of calculateContrastRatio would return
FallbackResult ==
    [contrastRatio |-> [num |-> 1, den |-> 1],
     passes |-> FALSE, wcagAA |-> FALSE, wcagAAA |-> FALSE]

\* the colors of the model: black, white, greys and primaries with and
\* without "#"; three hex digits; a color name; letters that are no hex
\* digits; a sixth character that is no hex digit; seven hex digits; signs;
\* the empty string; and an argument that is no string
Colors ==
    { <<"#", "0", "0", "0", "0", "0", "0">>,
      <<"#", "f", "f", "f", "f", "f", "f">>,
      <<"#", "7", "7", "7", "7", "7", "7">>,
      <<"7", "6", "7", "6", "7", "6">>,
      <<"#", "5", "9", "5", "9", "5", "9">>,
      <<"#", "f", "f", "0", "0", "0", "0">>,
      <<"#", "0", "0", "0", "0", "f", "f">>,
      <<"#", "f", "f", "f">>,
      <<"r", "e", "d">>,
      <<"#", "z", "z", "z", "z", "z", "z">>,
      <<"#", "1", "2", "3", "4", "5", "g">>,
      <<"#", "f", "f", "f", "f", "f", "f", "f">>,
      <<"-", "f", "-", "f", "-", "f">>,
      <<>>,
      NotAString }

ContrastInit ==
    /\ LoopIdle
    /\ MainIdle
    /\ FixIdle
    /\ color1 \in Colors
    /\ color2 \in Colors
    /\ contrast = <<>>

\* the call calculateContrastRatio(color1, color2) and its return
Calculate ==
    /\ contrast = <<>>
    /\ contrast' = <<calculateContrastRatio(color1, color2)>>
    /\ UNCHANGED <<color1, color2>>
    /\ UNCHANGED <<loopVars, mainVars, fixVars>>

ContrastNext == Calculate

ContrastSpec == ContrastInit /\ [][ContrastNext]_vars

----------------------------------------------------------------------------
(* Properties of the contrast calculation *)

\* the call has returned
Calculated == contrast # <<>>
\* what it returned
Returned1 == contrast[1]

\* six hex digits after an optional "#"
IsValidColor(c) ==
    /\ c # NotAString
    /\ LET h == IF c # <<>> /\ Head(c) = "#" THEN Tail(c) ELSE c
       IN Len(h) = 6 /\ \A i \in 1..6 : IsHexDigit(h[i])

BothValid == IsValidColor(color1) /\ IsValidColor(color2)

\* C23: for two valid colors, the call with the arguments exchanged returns
\* the same contrastRatio and the same passes, wcagAA and wcagAAA.
C23_Symmetric ==
    (Calculated /\ BothValid) =>
        Returned1 = calculateContrastRatio(color2, color1)

\* C23 witness: a result for two valid colors of different luminance, with
\* the darker one first.
C23_Witness ==
    /\ Calculated
    /\ BothValid
    /\ getLuminance(color1) < getLuminance(color2)
    /\ Returned1.passes

\* C24: in every result, for any two arguments, passes equals wcagAA, and
\* wcagAAA implies wcagAA.
C24_FlagsConsistent ==
    Calculated =>
        /\ Returned1.passes = Returned1.wcagAA
        /\ Returned1.wcagAAA => Returned1.wcagAA

\* C24 witness: a result that passes AA and not AAA, and so tells the two
\* thresholds apart.
C24_Witness ==
    /\ Calculated
    /\ Returned1.wcagAA
    /\ ~Returned1.wcagAAA

\* the ratio is the number 1
IsOne(ratio) == ratio # NaNRatio /\ ratio.num = ratio.den

\* C25 (as claimed): when an argument is not six hex digits after an
\* optional "#", the call returns the fallback result: a contrastRatio of
\* 1.0 and passes, wcagAA and wcagAAA all false.
C25_AsClaimed ==
    (Calculated /\ ~BothValid) =>
        /\ IsOne(Returned1.contrastRatio)
        /\ Returned1.passes = FallbackResult.passes
        /\ Returned1.wcagAA = FallbackResult.wcagAA
        /\ Returned1.wcagAAA = FallbackResult.wcagAAA

\* What holds instead: a result whose ratio is NaN has all three flags
\* false.
NaNNeverPasses ==
    (Calculated /\ Returned1.contrastRatio = NaNRatio) =>
        /\ ~Returned1.passes
        /\ ~Returned1.wcagAA
        /\ ~Returned1.wcagAAA

\* the ratio of white on black
BlackOnWhite ==
    calculateContrastRatio(<<"#", "0", "0", "0", "0", "0", "0">>,
                           <<"#", "f", "f", "f", "f", "f", "f">>).contrastRatio

\* C26: for valid colors the ratio is at least 1 and at most the ratio of
\* black and white, 21 (numerator at most 1.05, denominator at least 0.05),
\* and a color against itself gives exactly 1 and does not pass.
C26_RatioInRange ==
    (Calculated /\ BothValid) =>
        /\ Returned1.contrastRatio # NaNRatio
        /\ Returned1.contrastRatio.num >= Returned1.contrastRatio.den
        /\ Returned1.contrastRatio.num <= BlackOnWhite.num
        /\ Returned1.contrastRatio.den >= BlackOnWhite.den
        /\ BlackOnWhite.num = 21 * BlackOnWhite.den
        /\ color1 = color2 =>
              /\ IsOne(Returned1.contrastRatio)
              /\ ~Returned1.passes

\* C26 witness: the ratio of a valid color other than black against
\* itself.
C26_Witness ==
    /\ Calculated
    /\ BothValid
    /\ color1 = color2
    /\ getLuminance(color1) > 0

----------------------------------------------------------------------------
(* Further properties of the fix applier *)

\* the positions of t where a declaration of the foreground color (of the
\* background color, if background) begins: a color: that does not (does)
\* follow background-
DeclarationsAt(t, background) ==
    {i \in 1..Len(t) :
        /\ LowerAtom(t[i]) = "color:"
        /\ background <=> (i > 1 /\ LowerAtom(t[i - 1]) = "background-")}

\* the value declared at position i, in lower case
ValueAt(t, i) == LowerCase(Trim(RunToSemicolon(t, i + 1)))

RECURSIVE ValuesFrom(_, _, _)
\* the values of the declarations of t at or after position i, in order
ValuesFrom(t, i, background) ==
    IF i > Len(t) THEN <<>>
    ELSE (IF i \in DeclarationsAt(t, background) THEN <<ValueAt(t, i)>> ELSE <<>>)
         \o ValuesFrom(t, i + 1, background)

DeclaredValues(t, background) == ValuesFrom(t, 1, background)

\* the last pass handed its fix to the color fallback, and the fix is about
\* the foreground color only
LastFixForegroundFallback ==
    /\ FixProcessed
    /\ FallbackRuns(script, prevContent, LastFix, lastValidity)
    /\ BothDeclare(LastFix, ColorProperty)
    /\ ~HasDeclaration(LastFix.originalCode, BackgroundProperty)
    /\ ~HasDeclaration(LastFix.fixedCode, BackgroundProperty)
    /\ ~HasDollar(LastFix.fixedCode)

\* the color: values of the last fix
OldColor == LowerCase(DeclaredValue(LastFix.originalCode, ColorProperty))
NewColor == LowerCase(DeclaredValue(LastFix.fixedCode, ColorProperty))

\* what the claim allows the fallback to do to the declarations
ForegroundExactlyReplaced ==
    /\ DeclaredValues(fixedContent, TRUE) = DeclaredValues(prevContent, TRUE)
    /\ DeclaredValues(fixedContent, FALSE)
         = [k \in DOMAIN DeclaredValues(prevContent, FALSE) |->
               IF DeclaredValues(prevContent, FALSE)[k] = OldColor
               THEN NewColor
               ELSE DeclaredValues(prevContent, FALSE)[k]]

\* C27 (as claimed): the color fallback for a fix about the foreground
\* color changes the foreground color: declarations whose value is exactly
\* the old value and no others: background-color: declarations keep their
\* values, and so do declarations whose value only begins with the old one.
C27_AsClaimed ==
    LastFixForegroundFallback => ForegroundExactlyReplaced

\* no declared value of t holds a declaration itself
PlainValues(t) ==
    \A i \in DeclarationsAt(t, TRUE) \cup DeclarationsAt(t, FALSE) :
        \A k \in DOMAIN ValueAt(t, i) : ValueAt(t, i)[k] # "color:"

\* every match of the fallback's pattern in the document is a foreground
\* declaration with exactly the old value
EveryMatchExact ==
    /\ PlainValues(prevContent)
    /\ \A i \in 1..Len(prevContent) :
          MatchLength(prevContent, i, ColorProperty,
                      DeclaredValue(LastFix.originalCode, ColorProperty)) > 0
          => /\ i \in DeclarationsAt(prevContent, FALSE)
             /\ ValueAt(prevContent, i) = OldColor

\* What holds instead: the fallback does what the claim says to a document
\* in which its pattern matches nothing else.
ExactWhereNothingElseMatches ==
    (LastFixForegroundFallback /\ EveryMatchExact) => ForegroundExactlyReplaced

\* the last pass ran validateColorFix on a fix with a fixedCode
LastFixValidated ==
    /\ FixProcessed
    /\ lastValidity # "not run"
    /\ LastFix.fixedCode # Undefined

\* the declarations of the foreground (background) color in code that
\* have a value
ValuedDeclarations(code, background) ==
    {i \in DeclarationsAt(code, background) : RunToSemicolon(code, i + 1) # <<>>}

Least(S) == CHOOSE k \in S : \A l \in S : k <= l

\* the contrast checks the claim asks for: one when code declares both
\* colors, of the value of its foreground declaration against the value
\* of its background declaration
ClaimedChecks(code) ==
    IF ValuedDeclarations(code, FALSE) # {} /\ ValuedDeclarations(code, TRUE) # {}
    THEN <<[foreground |-> ValueAt(code, Least(ValuedDeclarations(code, FALSE))),
            background |-> ValueAt(code, Least(ValuedDeclarations(code, TRUE)))]>>
    ELSE <<>>

\* the checks made, values in lower case
ChecksMade ==
    [k \in DOMAIN lastCheck |->
        [foreground |-> LowerCase(lastCheck[k].foreground),
         background |-> LowerCase(lastCheck[k].background)]]

\* C29 (as claimed): validateColorFix calls the contrast check only when
\* fixedCode declares both a foreground color: and a background-color:,
\* then with the value of the foreground declaration as foreground and the
\* value of the background declaration as background, in whatever order
\* the two stand; when one is missing it answers true without a call.
C29_AsClaimed ==
    LastFixValidated =>
        /\ ChecksMade = ClaimedChecks(LastFix.fixedCode)
        /\ ClaimedChecks(LastFix.fixedCode) = <<>> => lastValidity = "valid"

\* in code, no background-color: stands before the first foreground color:
ForegroundStandsFirst(code) ==
    \/ DeclarationsAt(code, TRUE) = {}
    \/ /\ ValuedDeclarations(code, FALSE) # {}
       /\ Least(ValuedDeclarations(code, FALSE)) < Least(DeclarationsAt(code, TRUE))

\* What holds instead: the check is as claimed when the foreground
\* declaration comes first in fixedCode, or there is no background.
ValidationRightForegroundFirst ==
    (LastFixValidated /\ ForegroundStandsFirst(LastFix.fixedCode)) =>
        /\ ChecksMade = ClaimedChecks(LastFix.fixedCode)
        /\ ClaimedChecks(LastFix.fixedCode) = <<>> => lastValidity = "valid"

\* the last fix lacks one of its codes, or has an empty one
LastFixLacksCode ==
    /\ FixProcessed
    /\ ~TruthyCode(LastFix.originalCode) \/ ~TruthyCode(LastFix.fixedCode)

\* C30: a fix whose originalCode or fixedCode is empty or missing leaves
\* the document as it was, in all three variants of the loop and for every
\* fix type; an empty originalCode does not match at the start of the
\* document.
C30_EmptyCodeNoChange ==
    LastFixLacksCode => fixedContent = prevContent

\* C30 witness: after a fix that changed the document, a color-contrast fix
\* with an empty originalCode and a fixedCode has been processed without
\* being stopped by the validation.
C30_Witness ==
    /\ LastFixLacksCode
    /\ LastFix.originalCode = <<>>
    /\ TruthyCode(LastFix.fixedCode)
    /\ LastFix.type = ColorContrast
    /\ NotStopped
    /\ prevContent # htmlContent

====
